---------------------------- MODULE Spec2Model ----------------------------
(***************************************************************************)
(* CAtom (catom.c, memalloc.c): the test runner, the assertion primitive,  *)
(* the benchmark runner, the POSIX hard timed driver and the scoped        *)
(* allocator, as a state machine over a small set of processes.            *)
(*                                                                         *)
(* Every process owns a copy of the library's globals (fork copies them).  *)
(* Test procedures, timed functions and benchmark procedures are straight- *)
(* line programs over a few statement kinds; the arrays handed to the      *)
(* runner are drawn from them in Init.                                     *)
(***************************************************************************)
EXTENDS Integers, Sequences, FiniteSets, TLC

(***************************************************************************)
(* Bounds of the model.                                                    *)
(***************************************************************************)
\* longest test array handed to run_tests
MaxTests == 2
\* data blocks the C library's heap can hold at once
MaxAddr == 2
\* list nodes the C library's heap can hold at once
MaxNodes == 2
\* processes fork can create beside the main one
MaxChildren == 2
\* largest warmup and times handed to run_benchmarks
MaxIter == 1
\* longest benchmark array handed to run_benchmarks
MaxBench == 1
\* the most dimensions of an array, the longest dimension, the most elements
\* and the largest element size (in bytes) of the arrays compared
MaxDims == 3
MaxDim == 2
MaxElems == 4
MaxSize == 2
MaxBurns == 3
MaxCalls == 2

NULL == 0

(***************************************************************************)
(* memalloc.c: the tracked-allocation list.                                *)
(* A pointer to a data block is an address in Addrs, a pointer to a list   *)
(* node is an id in NodePool or one of the two static sentinels.           *)
(***************************************************************************)
Addrs == 1..MaxAddr
NodePool == 1..MaxNodes
CONST_HEAD == MaxNodes + 1
CONST_TAIL == MaxNodes + 2
AllNodes == NodePool \cup {CONST_HEAD, CONST_TAIL}

\* PointerListNode
PointerListNode(ptr, bytes, pred, succ) ==
    [ptr |-> ptr, bytes |-> bytes, pred |-> pred, succ |-> succ]

\* the content the model gives a node that is not allocated
NoNode == PointerListNode(NULL, 0, NULL, NULL)

\* the static initialisers of CONST_HEAD, CONST_TAIL and list; the heap is empty
InitMem ==
    [node   |-> [n \in AllNodes |->
                    IF n = CONST_HEAD THEN PointerListNode(NULL, 0, NULL, CONST_TAIL)
                    ELSE IF n = CONST_TAIL THEN PointerListNode(NULL, 0, CONST_HEAD, NULL)
                    ELSE NoNode],
     head   |-> CONST_HEAD,
     tail   |-> CONST_TAIL,
     live   |-> {},
     blocks |-> {}]

\* what malloc(bytes) of the C library may return for a data block
MallocChoices(m) == {NULL} \cup (Addrs \ m.blocks)

\* what malloc(sizeof(PointerListNode)) may return
NodeChoices(m) == {NULL} \cup (NodePool \ m.live)

\* what realloc(ptr, bytes) of the C library may return for the live block ptr
ReallocChoices(m, ptr) == {NULL, ptr} \cup (Addrs \ m.blocks)

\* for (cur = list.head; cur != list.tail; cur = cur->succ) if (cur->ptr == ptr)
RECURSIVE FindNode(_, _, _, _)
FindNode(m, cur, ptr, fuel) ==
    IF cur = m.tail \/ cur \notin AllNodes \/ fuel = 0 THEN NULL
    ELSE IF m.node[cur].ptr = ptr THEN cur
    ELSE FindNode(m, m.node[cur].succ, ptr, fuel - 1)

\* a testfunc_malloc that links the new record forwards only: tail->pred is
\* left as it was
testfunc_malloc_noBackLink(m, bytes, mem, node) ==
    IF mem # NULL
    THEN LET m1   == [m EXCEPT !.blocks = @ \cup {mem}]
             tail == m1.tail
             prev == m1.node[tail].pred
         IN  IF node = NULL
             THEN [mem |-> m1, ret |-> NULL]
             ELSE [mem |-> [m1 EXCEPT
                              !.live = @ \cup {node},
                              !.node = [@ EXCEPT
                                 ![prev].succ = node,
                                 ![node] = PointerListNode(mem, bytes, prev, tail)]],
                   ret |-> mem]
    ELSE [mem |-> m, ret |-> NULL]

\* testfunc_malloc(bytes): mem is malloc's answer, node the node malloc's
testfunc_malloc(m, bytes, mem, node) ==
    IF mem # NULL
    THEN LET m1   == [m EXCEPT !.blocks = @ \cup {mem}]
             tail == m1.tail
             prev == m1.node[tail].pred
         IN  IF node = NULL
             THEN [mem |-> m1, ret |-> NULL]
             ELSE [mem |-> [m1 EXCEPT
                              !.live = @ \cup {node},
                              !.node = [@ EXCEPT
                                 ![tail].pred = node,
                                 ![prev].succ = node,
                                 ![node] = PointerListNode(mem, bytes, prev, tail)]],
                   ret |-> mem]
    ELSE [mem |-> m, ret |-> NULL]

\* testfunc_calloc(n, size): testfunc_malloc(n * size), then zero-filled
testfunc_calloc(m, n, size, mem, node) ==
    testfunc_malloc(m, n * size, mem, node)

\* a testfunc_realloc without the case of a NULL ptr: no record is found for it
testfunc_realloc_noNullCase(m, ptr, bytes, mem, node) ==
    LET cur == IF ptr = NULL THEN NULL ELSE FindNode(m, m.head, ptr, MaxNodes + 2)
    IN  IF cur = NULL THEN [mem |-> m, ret |-> NULL]
        ELSE IF mem = NULL
        THEN [mem |-> [m EXCEPT !.node[cur].ptr = NULL], ret |-> NULL]
        ELSE [mem |-> [m EXCEPT
                         !.blocks = (@ \ {ptr}) \cup {mem},
                         !.node[cur].ptr = mem,
                         !.node[cur].bytes = bytes],
              ret |-> mem]

\* testfunc_realloc(ptr, bytes): mem is the C library's answer (malloc's for a
\* NULL ptr, realloc's otherwise), node the node malloc's
testfunc_realloc(m, ptr, bytes, mem, node) ==
    IF ptr = NULL THEN testfunc_malloc(m, bytes, mem, node)
    ELSE LET cur == FindNode(m, m.head, ptr, MaxNodes + 2)
         IN  IF cur = NULL THEN [mem |-> m, ret |-> NULL]
             ELSE IF mem = NULL
             THEN \* cur->ptr = realloc(...) has stored NULL before the test
                  [mem |-> [m EXCEPT !.node[cur].ptr = NULL], ret |-> NULL]
             ELSE [mem |-> [m EXCEPT
                              !.blocks = (@ \ {ptr}) \cup {mem},
                              !.node[cur].ptr = mem,
                              !.node[cur].bytes = bytes],
                   ret |-> mem]

\* a testfunc_free that releases the block and the node of the first record
\* it meets, whatever its pointer
testfunc_free_firstRecord(m, ptr) ==
    IF ptr = NULL THEN m
    ELSE LET cur == m.node[m.head].succ
         IN  IF cur = m.tail THEN m
             ELSE LET pred == m.node[cur].pred
                      succ == m.node[cur].succ
                  IN  [m EXCEPT
                         !.blocks = @ \ {m.node[cur].ptr},
                         !.live = @ \ {cur},
                         !.node = [@ EXCEPT
                            ![pred].succ = succ,
                            ![succ].pred = pred,
                            ![cur] = NoNode]]

\* testfunc_free(ptr)
testfunc_free(m, ptr) ==
    IF ptr = NULL THEN m
    ELSE LET cur == FindNode(m, m.head, ptr, MaxNodes + 2)
         IN  IF cur = NULL THEN m
             ELSE LET pred == m.node[cur].pred
                      succ == m.node[cur].succ
                  IN  [m EXCEPT
                         !.blocks = @ \ {ptr},
                         !.live = @ \ {cur},
                         !.node = [@ EXCEPT
                            ![pred].succ = succ,
                            ![succ].pred = pred,
                            ![cur] = NoNode]]

\* what the read of cur->succ can give once testfunc_free has released cur:
\* the value the node held, or anything else (the walk is then lost)
ReleasedReads == {"stale", "lost"}

\* testfunc_freeall(): the walk from cur; the set of its outcomes. freed holds
\* the records whose succ field the walk has read after testfunc_free had
\* released them
RECURSIVE freeall_walk(_, _, _, _)
freeall_walk(m, cur, fuel, freed) ==
    IF cur = m.tail \/ fuel = 0 THEN {[mem |-> m, lost |-> FALSE, freed |-> freed]}
    ELSE LET m1 == testfunc_free(m, m.node[cur].ptr)
         IN  IF cur \in m1.live
             THEN freeall_walk(m1, m1.node[cur].succ, fuel - 1, freed)
             ELSE UNION {IF r = "stale"
                         THEN freeall_walk(m1, m.node[cur].succ, fuel - 1,
                                           freed \cup {cur})
                         ELSE {[mem |-> m1, lost |-> TRUE,
                                freed |-> freed \cup {cur}]} : r \in ReleasedReads}

testfunc_freeall(m) == freeall_walk(m, m.node[m.head].succ, MaxNodes + 2, {})

\* the records of the list, head to tail
RECURSIVE Records(_, _, _)
Records(m, cur, fuel) ==
    IF cur = m.tail \/ cur \notin AllNodes \/ fuel = 0 THEN <<>>
    ELSE <<cur>> \o Records(m, m.node[cur].succ, fuel - 1)

TrackedRecords(m) == Records(m, m.node[m.head].succ, MaxNodes + 2)


(***************************************************************************)
(* User code: statements, timed functions, test and benchmark procedures.  *)
(***************************************************************************)
Stmt(op, ok, fn, limit) == [op |-> op, ok |-> ok, fn |-> fn, limit |-> limit]

\* assert_true(true) and assert_true(false) at a call site
ASSERT_OK == Stmt("assert", TRUE, "", 0)
ASSERT_FAIL == Stmt("assert", FALSE, "", 0)
\* v = testfunc_malloc(1); v = testfunc_calloc(1, 1);
\* v = testfunc_realloc(v, 2); testfunc_free(v), for the test's local pointer v
MALLOC == Stmt("malloc", TRUE, "", 0)
CALLOC == Stmt("calloc", TRUE, "", 0)
REALLOC == Stmt("realloc", TRUE, "", 0)
FREE == Stmt("free", TRUE, "", 0)
\* for (;;) {}
LOOP == Stmt("loop", TRUE, "", 0)
\* assert_time_limit_async(fn, limit)
HARD(fn, limit) == Stmt("hard", TRUE, fn, limit)
\* assert_time_limit(fn, limit)
SOFT(fn, limit) == Stmt("soft", TRUE, fn, limit)

\* time limits are held in tenths of a microsecond
UnitsPerSec == 10 * 1000000
UnitsPerUsec == UnitsPerSec \div 1000000
\* 0 s and 0.05 s
LIMIT_ZERO == 0 * UnitsPerSec
LIMIT_POS == UnitsPerSec \div 20

\* the functions handed to assert_time_limit_async
Func(fn) ==
    CASE fn = "ret"  -> <<>>
      [] fn = "ok"   -> <<ASSERT_OK>>
      [] fn = "fail" -> <<ASSERT_FAIL, ASSERT_OK>>
      [] fn = "loop" -> <<LOOP>>
      [] OTHER       -> <<>>

\* the test procedures a Test array is drawn from
TestProcs ==
    { <<ASSERT_OK>>,
      <<ASSERT_FAIL, ASSERT_OK>>,
      <<MALLOC, REALLOC, ASSERT_FAIL>>,
      <<CALLOC, MALLOC, FREE>>,
      <<HARD("ok", LIMIT_POS), ASSERT_OK>>,
      <<HARD("fail", LIMIT_POS), ASSERT_OK>>,
      <<HARD("loop", LIMIT_POS), ASSERT_OK>>,
      <<HARD("loop", LIMIT_ZERO), ASSERT_OK>> }

\* the benchmark procedures a Benchmark array is drawn from
BenchProcs ==
    { <<ASSERT_OK>>,
      <<ASSERT_FAIL, ASSERT_OK>>,
      <<HARD("fail", LIMIT_POS)>> }

\* the test procedures of a main that also runs benchmarks
BenchTestProcs ==
    { <<ASSERT_FAIL, ASSERT_OK>> }

SeqsUpTo(S, k) == UNION {[1..j -> S] : j \in 0..k}

(***************************************************************************)
(* State.                                                                  *)
(*   tests, benchs, warmup, times, mainProg: what the user's main holds    *)
(*   proc[p]: process p's copy of the globals, where it is in the code,    *)
(*            and what the kernel keeps for it (parent, timer, SIGALRM     *)
(*            disposition, exit status)                                    *)
(*   alloc: the tracked-allocation list when the scoped allocator is       *)
(*            called on its own, with the call made last                   *)
(*   cmp: the two arrays given to an array assertion called on its own,    *)
(*            and what the call made of them                               *)
(*   diag: what the assertions of one test procedure record and report     *)
(*   win: the threads and the globals of a test under the Windows hard     *)
(*            timed driver                                                 *)
(***************************************************************************)
VARIABLES tests, benchs, warmup, times, mainProg, proc, alloc, cmp, diag, win

vars == <<tests, benchs, warmup, times, mainProg, proc, alloc, cmp, diag, win>>
user == <<tests, benchs, warmup, times, mainProg>>
lib == <<alloc, cmp, diag, win>>

\* no array is being compared
NoCmp == [op |-> "none"]

\* no assertion is being followed for what it reports
NoDiag == [op |-> "none"]

\* the Windows hard timed driver is not in use
NoWin == [op |-> "none"]

\* no call of the scoped allocator has been made: the list as initialised
NoAlloc ==
    [op |-> "none", ptr |-> NULL, bytes |-> 0, lib |-> NULL, libnode |-> NULL,
     ret |-> NULL, pre |-> InitMem, mem |-> InitMem, handed |-> {}, lost |-> FALSE,
     freed |-> {}]

MainPid == 1
Pids == 1..(1 + MaxChildren)

NoStatus == [kind |-> "none", code |-> 0]
Exited(code) == [kind |-> "exited", code |-> code % 256]
Signaled == [kind |-> "signaled", code |-> 0]
\* a check of the status that takes WIFSIGNALED for WIFEXITED
WIFEXITED_signaled(status) == status.kind = "signaled"

\* WIFEXITED(status)
WIFEXITED(status) == status.kind = "exited"

NoProc ==
    [pc |-> "none", mp |-> 0, failures |-> 0, in_benchmark |-> FALSE,
     in_timed |-> FALSE, child |-> -1, passed |-> <<>>, i |-> 0, ip |-> 0,
     unit |-> "none", v |-> NULL, fn |-> "", fip |-> 0, bi |-> 0, it |-> 0, mem |-> InitMem,
     \* the processor time clock() reports, and the local time of
     \* __assert_time_limit
     clock |-> 0, time |-> 0,
     timer |-> "off", handler |-> "dfl", prev_handler |-> "dfl",
     status |-> NoStatus, parent |-> 0, exit |-> NoStatus,
     \* what the process has printed and done, kept to state the properties
     \* (escaped, returned: how its user function ended; casserted, creturned:
     \* the same of the child it reaped last)
     \* (burns: how often processor time has been seen to pass; nofork: a
     \* fork of the procedure being run has failed)
     reports |-> 0, after |-> FALSE, log |-> <<>>, asserted |-> {}, burns |-> 0,
     nofork |-> FALSE,
     bcalls |-> 0, fail0 |-> 0, escaped |-> FALSE, lost |-> FALSE,
     handed |-> {}, returned |-> FALSE, casserted |-> FALSE, creturned |-> FALSE,
     \* (stray: its alarm handler has sent SIGKILL to a pid that was not its
     \* unreaped child)
     stray |-> FALSE]

\* the process as main is entered: the globals hold their static initialisers
MainProc(flags) == [NoProc EXCEPT !.pc = "main", !.mp = 1, !.passed = flags]

\* main is either  run_tests(tests, n); return count_failures(tests, n);
\* or  run_tests(tests, n); run_benchmarks(benchs, nb, warmup, times); return ...
Init ==
    /\ \/ /\ mainProg = <<"run_tests">>
          /\ tests \in SeqsUpTo(TestProcs, MaxTests)
          /\ benchs = <<>>
          /\ warmup = 0
          /\ times = 0
       \/ /\ mainProg = <<"run_tests", "run_benchmarks">>
          /\ tests \in SeqsUpTo(BenchTestProcs, 1)
          /\ benchs \in SeqsUpTo(BenchProcs, MaxBench)
          /\ warmup \in 0..MaxIter
          /\ times \in 0..MaxIter
    /\ alloc = NoAlloc
    /\ cmp = NoCmp
    /\ diag = NoDiag
    /\ win = NoWin
    /\ \E b \in BOOLEAN :
          proc = [p \in Pids |->
                    IF p = MainPid THEN MainProc([k \in 1..Len(tests) |-> b])
                    ELSE NoProc]

(***************************************************************************)
(* Helpers on one process's state r.                                       *)
(***************************************************************************)
n == Len(tests)

\* the statements r is executing, and which of them is next
Code(r) ==
    IF r.pc \in {"func", "sfunc"} THEN Func(r.fn)
    ELSE IF r.unit = "test" THEN tests[r.i + 1]
    ELSE benchs[r.bi + 1]

Index(r) == IF r.pc \in {"func", "sfunc"} THEN r.fip ELSE r.ip

AtStmt(r, op) ==
    /\ r.pc \in {"body", "func", "sfunc"}
    /\ Index(r) <= Len(Code(r))
    /\ Code(r)[Index(r)].op = op

CurStmt(r) == Code(r)[Index(r)]

\* a statement of the procedure is executed: has one run after a failure report?
Touch(r) == [r EXCEPT !.after = @ \/ (r.reports > 0 /\ ~r.in_benchmark)]

\* the scoped allocator has answered ret and left the heap as m: the blocks it
\* has handed to the procedure and that are still allocated
Handed(r, m, ret) ==
    [r EXCEPT !.mem = m,
              !.handed = (@ \cap m.blocks) \cup (IF ret = NULL THEN {} ELSE {ret})]

\* control passes to the next statement
Advance(r) ==
    IF r.pc \in {"func", "sfunc"} THEN [r EXCEPT !.fip = @ + 1]
    ELSE [r EXCEPT !.ip = @ + 1, !.pc = "body"]

\* exit(code), or the end by a signal: the process is a zombie until reaped
Terminate(r, status) ==
    [r EXCEPT !.pc = "zombie", !.exit = status, !.timer = "off"]

\* a fail_test that counts the failure and returns to the test
fail_test_returns(r) == [Advance(r) EXCEPT !.failures = @ + 1]

\* a fail_test that counts one failure as two
fail_test_countsTwice(r) ==
    [r EXCEPT !.failures = @ + 2,
              !.pc = "rt_fail",
              !.escaped = @ \/ (r.pc = "func"),
              !.fn = "", !.fip = 0, !.ip = 0, !.v = NULL]

\* fail_test(): ++failures; longjmp(env, 1) to the setjmp of __run_test
fail_test(r) ==
    [r EXCEPT !.failures = @ + 1,
              !.pc = "rt_fail",
              !.escaped = @ \/ (r.pc = "func"),
              !.fn = "", !.fip = 0, !.ip = 0, !.v = NULL]

\* terminate_timed_test(): exit(-1)
terminate_timed_test(r) == Terminate(r, Exited(-1))

\* a __test_assert__ without the branch on in_benchmark
test_assert_failed_noWarning(r) ==
    LET r1 == [r EXCEPT !.reports = @ + 1,
                        !.asserted = IF r.unit = "test" /\ ~r.in_benchmark
                                     THEN @ \cup {r.i} ELSE @]
    IN  IF r1.in_timed THEN terminate_timed_test(r1)
        ELSE fail_test(r1)

\* __test_assert__(cond) with cond false: the report, then the branch on the mode
test_assert_failed(r) ==
    LET r1 == [r EXCEPT !.reports = @ + 1,
                        !.asserted = IF r.unit = "test" /\ ~r.in_benchmark
                                     THEN @ \cup {r.i} ELSE @]
    IN  IF r1.in_benchmark THEN Advance(r1)
        ELSE IF r1.in_timed THEN terminate_timed_test(r1)
        ELSE fail_test(r1)

\* __test_assert__(cond)
test_assert(r, cond) == IF cond THEN Advance(r) ELSE test_assert_failed(r)

\* timer_init_val of __assert_time_limit_async
TimerInit(limit) ==
    LET seconds == limit \div UnitsPerSec
    IN  [tv_sec  |-> seconds,
         tv_usec |-> (limit - seconds * UnitsPerSec) \div UnitsPerUsec]

\* setitimer(ITIMER_REAL, &v, NULL): a zero it_value disarms the timer
setitimer(v) == IF v.tv_sec = 0 /\ v.tv_usec = 0 THEN "off" ELSE "armed"

\* a count_failures that stops one index early
RECURSIVE count_from_stopsEarly(_, _, _)
count_from_stopsEarly(flags, k, len) ==
    IF k + 1 >= len THEN 0
    ELSE (IF ~flags[k + 1] THEN 1 ELSE 0) + count_from_stopsEarly(flags, k + 1, len)

\* count_failures(tests, n)
RECURSIVE count_from(_, _, _)
count_from(flags, k, len) ==
    IF k >= len THEN 0
    ELSE (IF ~flags[k + 1] THEN 1 ELSE 0) + count_from(flags, k + 1, len)

count_failures(flags, len) == count_from(flags, 0, len)

\* the processes whose parent is p
ChildrenOf(p) == {q \in Pids : proc[q].pc # "none" /\ proc[q].parent = p}

\* process p ends with status: its children are orphaned; without a parent to
\* wait for it, it is reaped at once
EndProcess(f, p, status) ==
    [q \in Pids |->
        IF q = p
        THEN (IF f[p].parent = 0 /\ p # MainPid THEN NoProc
              ELSE Terminate(f[p], status))
        ELSE IF f[q].pc # "none" /\ f[q].parent = p THEN
             (IF f[q].pc = "zombie" THEN NoProc ELSE [f[q] EXCEPT !.parent = 0])
        ELSE f[q]]

\* process p moves to r, or ends when r is a zombie
Become(p, r) ==
    IF r.pc = "zombie"
    THEN proc' = EndProcess([proc EXCEPT ![p] = r], p, r.exit)
    ELSE proc' = [proc EXCEPT ![p] = r]

(***************************************************************************)
(* main and the test runner.                                               *)
(***************************************************************************)
\* a main whose run_tests does not reset the failure counter
MainStep_keepsCounter(p) ==
    LET r == proc[p] IN
    /\ r.pc = "main"
    /\ UNCHANGED <<user, lib>>
    /\ IF r.mp > Len(mainProg)
       THEN Become(p, Terminate(r, Exited(count_failures(r.passed, n))))
       ELSE CASE mainProg[r.mp] = "run_tests" ->
                   Become(p, [r EXCEPT !.i = 0, !.pc = "rt_loop",
                                       !.log = <<>>, !.asserted = {}])
              [] mainProg[r.mp] = "run_benchmarks" ->
                   Become(p, [r EXCEPT !.bi = 0, !.pc = "rb_loop",
                                       !.fail0 = r.failures])
              [] OTHER ->
                   Become(p, [r EXCEPT !.failures = 0, !.mp = @ + 1])

\* main calls its next entry point, or returns count_failures(tests, n)
MainStep(p) ==
    LET r == proc[p] IN
    /\ r.pc = "main"
    /\ UNCHANGED <<user, lib>>
    /\ IF r.mp > Len(mainProg)
       THEN Become(p, Terminate(r, Exited(count_failures(r.passed, n))))
       ELSE CASE mainProg[r.mp] = "run_tests" ->
                   \* __run_tests: failures = 0
                   Become(p, [r EXCEPT !.failures = 0, !.i = 0, !.pc = "rt_loop",
                                       !.log = <<>>, !.asserted = {}])
              [] mainProg[r.mp] = "run_benchmarks" ->
                   Become(p, [r EXCEPT !.bi = 0, !.pc = "rb_loop",
                                       !.fail0 = r.failures])
              [] OTHER ->
                   \* reset_failures()
                   Become(p, [r EXCEPT !.failures = 0, !.mp = @ + 1])

\* a __run_tests that stops at the first failed test
RunTestsLoop_stopsAtFailure(p) ==
    LET r == proc[p] IN
    /\ r.pc = "rt_loop"
    /\ UNCHANGED <<user, lib>>
    /\ IF r.i < n /\ r.failures = 0
       THEN Become(p, [r EXCEPT !.pc = "body", !.unit = "test", !.ip = 1,
                                !.v = NULL, !.reports = 0, !.after = FALSE,
                                !.handed = {}, !.casserted = FALSE,
                                !.creturned = FALSE, !.nofork = FALSE,
                                !.log = Append(@, <<"test", r.i>>)])
       ELSE Become(p, [r EXCEPT !.pc = "main", !.mp = @ + 1, !.i = 0,
                                !.unit = "none"])

\* __run_tests: the loop head; __run_test up to the call of test->test()
RunTestsLoop(p) ==
    LET r == proc[p] IN
    /\ r.pc = "rt_loop"
    /\ UNCHANGED <<user, lib>>
    /\ IF r.i < n
       THEN Become(p, [r EXCEPT !.pc = "body", !.unit = "test", !.ip = 1,
                                !.v = NULL, !.reports = 0, !.after = FALSE,
                                !.handed = {}, !.casserted = FALSE,
                                !.creturned = FALSE, !.nofork = FALSE,
                                !.log = Append(@, <<"test", r.i>>)])
       ELSE Become(p, [r EXCEPT !.pc = "main", !.mp = @ + 1, !.i = 0,
                                !.unit = "none"])

\* a __run_test that does not set the flag of a test that returned
TestPassed_keepsFlag(p) ==
    LET r == proc[p] IN
    /\ r.pc = "body" /\ r.unit = "test" /\ r.ip > Len(Code(r))
    /\ UNCHANGED <<user, lib>>
    /\ Become(p, [r EXCEPT !.pc = "rt_sweep", !.ip = 0, !.v = NULL])

\* __run_test: test->test() has returned
TestPassed(p) ==
    LET r == proc[p] IN
    /\ r.pc = "body" /\ r.unit = "test" /\ r.ip > Len(Code(r))
    /\ UNCHANGED <<user, lib>>
    /\ Become(p, [r EXCEPT !.passed[r.i + 1] = TRUE, !.pc = "rt_sweep", !.ip = 0,
                            !.v = NULL])

\* a __run_test whose failure branch leaves without the sweep
TestFailed_skipsSweep(p) ==
    LET r == proc[p] IN
    /\ r.pc = "rt_fail"
    /\ UNCHANGED <<user, lib>>
    /\ Become(p, [r EXCEPT !.passed[r.i + 1] = FALSE, !.pc = "rt_loop", !.i = @ + 1])

\* __run_test: setjmp has returned a second time
TestFailed(p) ==
    LET r == proc[p] IN
    /\ r.pc = "rt_fail"
    /\ UNCHANGED <<user, lib>>
    /\ Become(p, [r EXCEPT !.passed[r.i + 1] = FALSE, !.pc = "rt_sweep"])

\* __run_test: testfunc_freeall(), then back to the loop of __run_tests
Sweep(p) ==
    LET r == proc[p] IN
    /\ r.pc = "rt_sweep"
    /\ UNCHANGED <<user, lib>>
    /\ \E o \in testfunc_freeall(r.mem) :
          LET r1 == [r EXCEPT !.mem = o.mem, !.log = Append(@, <<"freeall", r.i>>)]
          IN  IF o.lost
              THEN Become(p, Terminate([r1 EXCEPT !.lost = TRUE], Signaled))
              ELSE Become(p, [r1 EXCEPT !.pc = "rt_loop", !.i = @ + 1])

(***************************************************************************)
(* Statements of user code.                                                *)
(***************************************************************************)
\* an assertion of the catalog
Assertion(p) ==
    LET r == proc[p] IN
    /\ AtStmt(r, "assert")
    /\ UNCHANGED <<user, lib>>
    /\ Become(p, test_assert(Touch(r), CurStmt(r).ok))

\* v = testfunc_malloc(1) or v = testfunc_calloc(1, 1)
Malloc(p) ==
    LET r == proc[p] IN
    /\ AtStmt(r, "malloc") \/ AtStmt(r, "calloc")
    /\ UNCHANGED <<user, lib>>
    /\ \E a \in MallocChoices(r.mem), d \in NodeChoices(r.mem) :
          LET res == IF CurStmt(r).op = "malloc"
                     THEN testfunc_malloc(r.mem, 1, a, d)
                     ELSE testfunc_calloc(r.mem, 1, 1, a, d)
          IN  Become(p, Advance([Handed(Touch(r), res.mem, res.ret) EXCEPT
                                    !.v = res.ret]))

\* v = testfunc_realloc(v, 2)
Realloc(p) ==
    LET r == proc[p] IN
    /\ AtStmt(r, "realloc")
    /\ UNCHANGED <<user, lib>>
    /\ \E a \in (IF r.v = NULL THEN MallocChoices(r.mem)
                 ELSE ReallocChoices(r.mem, r.v)),
          d \in NodeChoices(r.mem) :
          LET res == testfunc_realloc(r.mem, r.v, 2, a, d)
          IN  Become(p, Advance([Handed(Touch(r), res.mem, res.ret) EXCEPT
                                    !.v = res.ret]))

\* testfunc_free(v)
Free(p) ==
    LET r == proc[p] IN
    /\ AtStmt(r, "free")
    /\ UNCHANGED <<user, lib>>
    /\ Become(p, Advance(Handed(Touch(r), testfunc_free(r.mem, r.v), NULL)))

\* __testfunc_runner__: func() has returned; exit(0)
FuncReturn(p) ==
    LET r == proc[p] IN
    /\ r.pc = "func" /\ r.fip > Len(Code(r))
    /\ UNCHANGED <<user, lib>>
    /\ Become(p, Terminate([r EXCEPT !.returned = TRUE], Exited(0)))


(***************************************************************************)
(* The benchmark runner.                                                   *)
(***************************************************************************)
\* __run_benchmarks: the loop head; __run_benchmark up to its own loop
RunBenchmarksLoop(p) ==
    LET r == proc[p] IN
    /\ r.pc = "rb_loop"
    /\ UNCHANGED <<user, lib>>
    /\ IF r.bi < Len(benchs)
       THEN Become(p, [r EXCEPT !.in_benchmark = TRUE, !.it = 0, !.pc = "rb_iter",
                                !.unit = "bench", !.bcalls = 0])
       ELSE Become(p, [r EXCEPT !.pc = "main", !.mp = @ + 1, !.bi = 0,
                                !.unit = "none"])

\* __run_benchmark: the head of the loop over warmup + times iterations
BenchmarkLoop(p) ==
    LET r == proc[p] IN
    /\ r.pc = "rb_iter"
    /\ UNCHANGED <<user, lib>>
    /\ IF r.it < warmup + times
       THEN Become(p, [r EXCEPT !.pc = "body", !.ip = 1, !.v = NULL,
                                !.reports = 0, !.after = FALSE, !.bcalls = @ + 1,
                                !.casserted = FALSE, !.creturned = FALSE,
                                !.nofork = FALSE])
       ELSE Become(p, [r EXCEPT !.in_benchmark = FALSE, !.pc = "rb_loop",
                                !.bi = @ + 1, !.it = 0])

\* __run_benchmark: benchmark->benchmark() has returned
BenchmarkReturn(p) ==
    LET r == proc[p] IN
    /\ r.pc = "body" /\ r.unit = "bench" /\ r.ip > Len(Code(r))
    /\ UNCHANGED <<user, lib>>
    /\ Become(p, [r EXCEPT !.pc = "rb_iter", !.it = @ + 1, !.ip = 0, !.v = NULL])

(***************************************************************************)
(* The POSIX hard timed driver.                                            *)
(***************************************************************************)
\* the pid fork gives the next process
FreePids == {q \in Pids : proc[q].pc = "none"}
NextPid == CHOOSE q \in FreePids : \A q2 \in FreePids : q <= q2

\* the child as fork returns 0 in it: a copy of the parent, no timer, and
\* case 0: __testfunc_runner__(func)
ForkedChild(r, p) ==
    [r EXCEPT !.child = 0, !.parent = p, !.timer = "off", !.status = NoStatus,
              !.pc = "func", !.fn = CurStmt(r).fn, !.fip = 1,
              !.escaped = FALSE, !.returned = FALSE,
              !.casserted = FALSE, !.creturned = FALSE]

\* the parent from fork's return to its call of waitpid: signal(SIGALRM,
\* __alarm_handler__); in_timed = true; setitimer(ITIMER_REAL, &timer_init_val)
ForkedParent(r, q) ==
    [r EXCEPT !.child = q,
              !.prev_handler = r.handler,
              !.handler = "alarm",
              !.in_timed = TRUE,
              !.timer = setitimer(TimerInit(CurStmt(r).limit)),
              !.pc = "t_wait",
              !.casserted = FALSE, !.creturned = FALSE]

\* a driver that goes on as if the function had returned in time when fork()
\* answers -1
ForkFails_silent(p) ==
    LET r == proc[p] IN
    /\ AtStmt(r, "hard")
    /\ UNCHANGED <<user, lib>>
    /\ Become(p, Advance([Touch(r) EXCEPT !.child = -1, !.nofork = TRUE]))

\* __assert_time_limit_async: fork() answers -1
ForkFails(p) ==
    LET r == proc[p] IN
    /\ AtStmt(r, "hard")
    /\ UNCHANGED <<user, lib>>
    /\ Become(p, test_assert([Touch(r) EXCEPT !.child = -1, !.nofork = TRUE], FALSE))

\* __assert_time_limit_async: fork() makes a child
Fork(p) ==
    LET r == proc[p] IN
    /\ AtStmt(r, "hard")
    /\ FreePids # {}
    /\ UNCHANGED <<user, lib>>
    /\ LET q == NextPid
       IN  proc' = [proc EXCEPT ![p] = ForkedParent(Touch(r), q),
                                ![q] = ForkedChild(Touch(r), p)]

\* waitpid(-1, &child_status, 0) returns: a child that has ended is reaped
Waitpid(p) ==
    LET r == proc[p] IN
    /\ r.pc = "t_wait"
    /\ UNCHANGED <<user, lib>>
    /\ \E q \in ChildrenOf(p) :
          /\ proc[q].pc = "zombie"
          /\ proc' = [proc EXCEPT ![p] = [r EXCEPT !.status = proc[q].exit,
                                                   !.pc = "t_after",
                                                   !.casserted = proc[q].escaped,
                                                   !.creturned = proc[q].returned],
                                  ![q] = NoProc]

\* a parent that leaves the timed call with in_timed still set
AfterWait_leavesTimed(p) ==
    LET r == proc[p] IN
    /\ r.pc = "t_after"
    /\ UNCHANGED <<user, lib>>
    /\ Become(p, IF WIFEXITED(r.status)
                 THEN Advance([r EXCEPT !.timer = "off", !.child = -1,
                                        !.handler = r.prev_handler,
                                        !.prev_handler = "dfl",
                                        !.status = NoStatus, !.pc = "body"])
                 ELSE fail_test([r EXCEPT !.timer = "off", !.child = -1,
                                          !.handler = r.prev_handler,
                                          !.prev_handler = "dfl",
                                          !.status = NoStatus, !.pc = "body",
                                          !.reports = @ + 1]))

\* the parent after waitpid: setitimer(ITIMER_REAL, &IT_ZERO); __child__ = -1;
\* signal(SIGALRM, prev_handler); in_timed = false;
\* __test_assert__(WIFEXITED(child_status))
AfterWait(p) ==
    LET r == proc[p] IN
    /\ r.pc = "t_after"
    /\ UNCHANGED <<user, lib>>
    /\ Become(p, test_assert([r EXCEPT !.timer = setitimer([tv_sec |-> 0, tv_usec |-> 0]),
                                       !.child = -1,
                                       !.handler = r.prev_handler,
                                       !.prev_handler = "dfl",
                                       !.in_timed = FALSE,
                                       !.status = NoStatus,
                                       !.pc = "body"],
                             WIFEXITED(r.status)))

\* kill(pid, SIGKILL)
kill(f, pid) ==
    IF pid \in Pids /\ f[pid].pc \notin {"none", "zombie"}
    THEN EndProcess(f, pid, Signaled)
    ELSE f

\* an alarm handler that leaves the child alone
alarm_handler_ignores(f, p) == f

\* pid is a child of p that p has not reaped
UnreapedChild(f, p, pid) ==
    pid \in Pids /\ f[pid].pc # "none" /\ f[pid].parent = p

\* __alarm_handler__
alarm_handler(f, p) ==
    IF f[p].child >= 0
    THEN [kill(f, f[p].child) EXCEPT
             ![p].stray = @ \/ ~UnreapedChild(f, p, f[p].child) \/ ~f[p].in_timed]
    ELSE f

\* the interval timer of p expires: SIGALRM is delivered to p
TimerExpires(p) ==
    LET r == proc[p] IN
    /\ r.timer = "armed"
    /\ UNCHANGED <<user, lib>>
    /\ LET f == [proc EXCEPT ![p].timer = "off"]
       IN  proc' = IF r.handler = "alarm" THEN alarm_handler(f, p)
                   ELSE EndProcess(f, p, Signaled)

(***************************************************************************)
(* The specification.                                                      *)
(***************************************************************************)
Step(p) ==
    \/ MainStep(p)
    \/ RunTestsLoop(p)
    \/ TestPassed(p)
    \/ TestFailed(p)
    \/ Sweep(p)
    \/ Assertion(p)
    \/ Malloc(p)
    \/ Realloc(p)
    \/ Free(p)
    \/ FuncReturn(p)
    \/ RunBenchmarksLoop(p)
    \/ BenchmarkLoop(p)
    \/ BenchmarkReturn(p)
    \/ ForkFails(p)
    \/ Fork(p)
    \/ Waitpid(p)
    \/ AfterWait(p)
    \/ TimerExpires(p)

Next == \E p \in Pids : Step(p)

Spec == Init /\ [][Next]_vars


(***************************************************************************)
(* Properties.                                                             *)
(***************************************************************************)
Main == proc[MainPid]
Live == {p \in Pids : proc[p].pc # "none"}

\* run_tests(tests, n) has returned to main in process state r
RunTestsReturned(r) == r.pc # "none" /\ r.mp >= 2

IsStraightLine(code) == \A k \in 1..Len(code) : code[k].op # "hard"
HasFailingAssert(code) == \E k \in 1..Len(code) : code[k] = ASSERT_FAIL

\* the tests the runner has called, in the order of the calls
Called(r) == SelectSeq(r.log, LAMBDA e : e[1] = "test")

\* C1: once run_tests has returned on the main context, a test's passed flag is
\* true exactly when its procedure met no failed assertion there (for a
\* procedure without a timed call: exactly when it holds no failing assertion),
\* and count_failures is the number of procedures that failed an assertion.
C1_VerdictsMatchAssertions ==
    RunTestsReturned(Main) =>
        /\ \A k \in 0..(n - 1) :
              /\ Main.passed[k + 1] <=> k \notin Main.asserted
              /\ IsStraightLine(tests[k + 1]) =>
                    (Main.passed[k + 1] <=> ~HasFailingAssert(tests[k + 1]))
        /\ count_failures(Main.passed, n) = Cardinality(Main.asserted)

C1_Witness ==
    /\ RunTestsReturned(Main)
    /\ tests = << <<ASSERT_FAIL, ASSERT_OK>>, <<ASSERT_OK>> >>
    /\ Main.passed = <<FALSE, TRUE>>
    /\ count_failures(Main.passed, n) = 1

\* C2: a failed assertion in runner mode does not return to the test: the next
\* thing its process does is the runner's failure branch for the same test with
\* the failure counted once; no statement of a test runs after a failure report
\* and no test has more than one report.
C2_FailedAssertJumps ==
    \A p \in Pids :
        (/\ proc[p].pc \in {"body", "func", "t_after"}
         /\ ~proc[p].in_benchmark
         /\ proc'[p].reports = proc[p].reports + 1)
        => /\ proc'[p].pc = "rt_fail"
           /\ proc'[p].i = proc[p].i
           /\ proc'[p].failures = proc[p].failures + 1

C2_OneReportPerTest ==
    \A p \in Live :
        (proc[p].unit = "test" /\ ~proc[p].in_benchmark)
        => ~proc[p].after /\ proc[p].reports <= 1

C2_AssertAbortsTest == [][C2_FailedAssertJumps]_vars /\ []C2_OneReportPerTest

C2_Witness ==
    /\ Main.pc = "rt_fail"
    /\ Main.reports = 1
    /\ tests[Main.i + 1] = <<ASSERT_FAIL, ASSERT_OK>>

\* C3: the procedures run_tests has called on the main context are tests
\* 0, 1, 2, ... in that order, each once; when it returns it has called all n.
C3_CalledInArrayOrder ==
    /\ \A j \in 1..Len(Called(Main)) : Called(Main)[j][2] = j - 1
    /\ RunTestsReturned(Main) => Len(Called(Main)) = n

C3_Witness ==
    /\ RunTestsReturned(Main)
    /\ n = 2
    /\ ~Main.passed[1]
    /\ Called(Main) = << <<"test", 0>>, <<"test", 1>> >>

\* C4 (as claimed): after the end-of-test sweep the list holds no record and no
\* block the scoped allocator handed out during the test is still allocated.
C4_SweepLeavesNothing ==
    \A p \in Live :
        (proc[p].pc = "rt_loop" /\ proc[p].i >= 1)
        => /\ TrackedRecords(proc[p].mem) = <<>>
           /\ proc[p].handed \cap proc[p].mem.blocks = {}

\* C5: in every process the runner's calls alternate: test 0, freeall, test 1,
\* freeall, ...; a test's procedure is running only after the sweep of the test
\* before it, and run_tests returns after n calls and n sweeps.
C5_SweepOnceAfterEachTest ==
    \A p \in Live :
        LET r == proc[p] IN
        /\ \A j \in 1..Len(r.log) :
              r.log[j] = IF j % 2 = 1 THEN <<"test", (j - 1) \div 2>>
                         ELSE <<"freeall", (j - 2) \div 2>>
        /\ r.pc \in {"body", "func", "t_wait", "t_after", "rt_fail", "rt_sweep"}
              /\ r.unit = "test" => Len(r.log) = 2 * r.i + 1
        /\ r.pc = "rt_loop" => Len(r.log) = 2 * r.i
        /\ RunTestsReturned(r) /\ ~r.lost => Len(r.log) = 2 * n

C5_Witness ==
    /\ RunTestsReturned(Main)
    /\ Main.passed = <<FALSE, TRUE>>
    /\ Main.log = << <<"test", 0>>, <<"freeall", 0>>, <<"test", 1>>, <<"freeall", 1>> >>

\* r is a process inside a test in runner mode
InTest(r) == r.unit = "test" /\ ~r.in_benchmark

\* r is in __assert_time_limit_async between fork and the check of the status
InTimedCall(r) == r.pc \in {"t_wait", "t_after"}

\* C6 (as claimed): when the user function of a hard timed call fails an
\* assertion in the child, the parent's timed call fails the enclosing test:
\* the test does not go on, one failure is reported, passed becomes false.
C6_ChildAssertFailsTest ==
    \A p \in Live :
        LET r == proc[p] IN
        (InTest(r) /\ r.casserted /\ r.pc \in {"body", "rt_fail", "rt_sweep"})
        => /\ r.pc # "body"
           /\ r.reports = 1
           /\ r.pc = "rt_sweep" => ~r.passed[r.i + 1]

\* C7: a hard timed call with a positive limit on a function that never
\* returns: while the parent waits the deadline is pending or the child has
\* ended; when the timer expires the child is killed; the parent finds it
\* ended by a signal and the test is recorded as failed; no child is left
\* when the runner is in its failure branch.
C7_DeadlineKillsChild ==
    \A p \in Pids :
        (/\ proc[p].pc = "t_wait"
         /\ proc[p].timer = "armed"
         /\ proc'[p].pc = "t_wait"
         /\ proc'[p].timer = "off")
        => proc'[proc[p].child].pc \in {"zombie", "none"}

C7_LoopingTestFails ==
    \A p \in Live :
        LET r == proc[p] IN
        InTest(r) =>
            /\ (r.pc = "t_wait" /\ CurStmt(r) = HARD("loop", LIMIT_POS))
               => \/ r.timer = "armed"
                  \/ \E q \in ChildrenOf(p) : proc[q].pc = "zombie"
            /\ (r.pc = "t_after" /\ CurStmt(r).fn = "loop") => r.status = Signaled
            /\ r.pc \in {"rt_fail", "rt_sweep"} => ChildrenOf(p) = {}
            /\ (r.pc = "rt_sweep" /\ tests[r.i + 1][1] = HARD("loop", LIMIT_POS))
               => ~r.passed[r.i + 1]

FairSpec == Spec /\ \A p \in Pids : WF_vars(Step(p))

\* C8 (as claimed): for every limit >= 0 the parent of a hard timed call does
\* not wait forever: it always gets past waitpid.
C8_ParentNeverWaitsForever ==
    \A p \in Pids : (proc[p].pc = "t_wait") ~> (proc[p].pc # "t_wait")

\* C9: when the user function of a hard timed call has returned (before the
\* timer killed the child), the status the parent gets is that of exit(0), and
\* the parent's check passes: it goes on with the statement after the call,
\* with no report and no failure counted.
C9_ReturnedChildExitsZero ==
    \A p \in Live :
        (proc[p].pc = "t_after" /\ proc[p].creturned) => proc[p].status = Exited(0)

C9_CheckPasses ==
    \A p \in Pids :
        (/\ proc[p].pc = "t_after"
         /\ proc[p].creturned
         /\ proc'[p].pc \notin {"t_after", "zombie", "none"})
        => /\ proc'[p].pc = "body"
           /\ proc'[p].ip = proc[p].ip + 1
           /\ proc'[p].failures = proc[p].failures
           /\ proc'[p].reports = proc[p].reports

C9_NormalReturnPasses == [][C9_CheckPasses]_vars /\ []C9_ReturnedChildExitsZero

C9_Witness ==
    /\ Main.pc = "body"
    /\ Main.creturned
    /\ tests[Main.i + 1] = <<HARD("ok", LIMIT_POS), ASSERT_OK>>
    /\ Main.ip = 2
    /\ Main.reports = 0
    /\ Main.failures = 0

\* C10: in a benchmark a failed assertion returns to the statement after it
\* and leaves the failure counter alone; the runner's failure branch is never
\* entered; a benchmark that is over has been called warmup + times times, and
\* after run_benchmarks the counter is what it was before.
C10_WarningReturns ==
    \A p \in Pids :
        (/\ proc[p].in_benchmark
         /\ proc[p].pc \in {"body", "func", "t_after"}
         /\ proc'[p].reports = proc[p].reports + 1)
        => /\ proc'[p].pc \in {"body", "func"}
           /\ Index(proc'[p]) = Index(proc[p]) + 1
           /\ proc'[p].failures = proc[p].failures

C10_CounterAndCalls ==
    \A p \in Live :
        LET r == proc[p] IN
        /\ r.in_benchmark => r.failures = r.fail0 /\ r.pc # "rt_fail"
        /\ (r.pc = "rb_loop" /\ r.bi >= 1) => r.bcalls = warmup + times
        /\ r.mp >= 3 => r.failures = r.fail0

C10_BenchmarkAssertsWarn == [][C10_WarningReturns]_vars /\ []C10_CounterAndCalls

C10_Witness ==
    /\ Main.pc = "main"
    /\ Main.mp = 3
    /\ benchs = << <<ASSERT_FAIL, ASSERT_OK>> >>
    /\ warmup + times = 2
    /\ Main.bcalls = 2
    /\ Main.fail0 = 1
    /\ Main.failures = 1

(***************************************************************************)
(* The runner called more than once: main is a sequence of run_tests and   *)
(* reset_failures calls over tests that only assert.                       *)
(***************************************************************************)
RunnerProcs == { <<ASSERT_OK>>, <<ASSERT_FAIL, ASSERT_OK>> }

RunnerProgs ==
    { <<"run_tests">>,
      <<"run_tests", "run_tests">>,
      <<"reset_failures", "run_tests">>,
      <<"run_tests", "reset_failures">>,
      <<"run_tests", "reset_failures", "run_tests">> }

RunnerInit ==
    /\ mainProg \in RunnerProgs
    /\ tests \in SeqsUpTo(RunnerProcs, MaxTests)
    /\ benchs = <<>>
    /\ warmup = 0
    /\ times = 0
    /\ alloc = NoAlloc
    /\ cmp = NoCmp
    /\ diag = NoDiag
    /\ win = NoWin
    /\ \E flags \in [1..Len(tests) -> BOOLEAN] :
          proc = [p \in Pids |-> IF p = MainPid THEN MainProc(flags) ELSE NoProc]

RunnerStep(p) ==
    \/ MainStep(p)
    \/ RunTestsLoop(p)
    \/ TestPassed(p)
    \/ TestFailed(p)
    \/ Sweep(p)
    \/ Assertion(p)

RunnerNext == \E p \in Pids : RunnerStep(p)

RunnerSpec == RunnerInit /\ [][RunnerNext]_vars

\* the entry point main has just returned from
JustReturned(r, name) ==
    r.pc = "main" /\ r.mp >= 2 /\ mainProg[r.mp - 1] = name

\* the tests whose procedure holds a failing assertion
FailingTests == {k \in 1..n : HasFailingAssert(tests[k])}

\* C11: whatever main did before (an earlier run of the tests, the counter it
\* left, the flags it left), when run_tests returns the failure counter is the
\* number of tests of this run that fail and each flag tells whether its test
\* passed; when reset_failures returns the counter is 0.
C11_RunDependsOnItsTestsOnly ==
    /\ JustReturned(Main, "run_tests") =>
          /\ Main.failures = Cardinality(FailingTests)
          /\ \A k \in 1..n : Main.passed[k] <=> k \notin FailingTests
    /\ JustReturned(Main, "reset_failures") => Main.failures = 0

C11_Witness ==
    /\ mainProg = <<"run_tests", "run_tests">>
    /\ JustReturned(Main, "run_tests")
    /\ Main.mp = 3
    /\ tests = << <<ASSERT_FAIL, ASSERT_OK>>, <<ASSERT_OK>> >>
    /\ Main.failures = 1
    /\ Main.passed = <<FALSE, TRUE>>

\* C12: count_failures(tests, len) is the number of indices below len whose
\* flag is false, 0 for len = 0; the step of main that returns it leaves the
\* flags and the failure counter as they were.
C12_CountsFalseFlags ==
    \A len \in 0..Len(Main.passed) :
        /\ count_failures(Main.passed, len)
              = Cardinality({k \in 1..len : ~Main.passed[k]})
        /\ len = 0 => count_failures(Main.passed, len) = 0

C12_ReadsOnly ==
    (Main.pc = "main" /\ proc'[MainPid].pc = "zombie")
    => /\ proc'[MainPid].exit = Exited(Cardinality({k \in 1..n : ~Main.passed[k]}))
       /\ proc'[MainPid].passed = Main.passed
       /\ proc'[MainPid].failures = Main.failures

C12_CountFailures == [][C12_ReadsOnly]_vars /\ []C12_CountsFalseFlags

C12_Witness ==
    /\ Main.pc = "zombie"
    /\ Main.passed = <<TRUE, FALSE>>
    /\ Main.failures = 1
    /\ Main.exit = Exited(1)

(***************************************************************************)
(* The soft time limit: tests that call assert_time_limit, run by          *)
(* run_tests, while the processor time of the process passes.              *)
(***************************************************************************)
\* the ticks of clock() in a second, and a tick in the unit of the limits
CLOCKS_PER_SEC == 1000 * 1000
UnitsPerTick == UnitsPerSec \div CLOCKS_PER_SEC

\* the processor time that may be seen to pass in one piece: half of
\* LIMIT_POS, and one tick more
ClockSteps == {(LIMIT_POS \div UnitsPerTick) \div 2, (LIMIT_POS \div UnitsPerTick) \div 2 + 1}

SoftProcs ==
    { <<SOFT("ok", LIMIT_POS), ASSERT_OK>>,
      <<ASSERT_OK, SOFT("ret", LIMIT_ZERO)>>,
      <<SOFT("fail", LIMIT_POS), ASSERT_OK>>,
      <<SOFT("loop", LIMIT_POS)>> }

SoftInit ==
    /\ mainProg = <<"run_tests">>
    /\ tests \in SeqsUpTo(SoftProcs, MaxTests)
    /\ benchs = <<>>
    /\ warmup = 0
    /\ times = 0
    /\ alloc = NoAlloc
    /\ cmp = NoCmp
    /\ diag = NoDiag
    /\ win = NoWin
    /\ \E b \in BOOLEAN :
          proc = [p \in Pids |->
                    IF p = MainPid THEN MainProc([k \in 1..Len(tests) |-> b])
                    ELSE NoProc]

\* a comparison with the limit that fails a function that took just the limit
time_limit_kept_strict(time, time_limit) == time * UnitsPerTick < time_limit

\* (double) time / CLOCKS_PER_SEC <= (double) time_limit
time_limit_kept(time, time_limit) == time * UnitsPerTick <= time_limit

\* __assert_time_limit: clock_t time = clock(); and the call func()
SoftCall(p) ==
    LET r == proc[p] IN
    /\ AtStmt(r, "soft")
    /\ r.pc = "body"
    /\ UNCHANGED <<user, lib>>
    /\ Become(p, [Touch(r) EXCEPT !.time = r.clock,
                                  !.pc = "sfunc", !.fn = CurStmt(r).fn, !.fip = 1,
                                  !.log = Append(@, <<"func", r.i>>)])

\* __assert_time_limit: func() has returned; time = clock() - time;
\* __test_assert__((double) time / CLOCKS_PER_SEC <= (double) time_limit)
SoftReturn(p) ==
    LET r == proc[p] IN
    /\ r.pc = "sfunc" /\ r.fip > Len(Code(r))
    /\ UNCHANGED <<user, lib>>
    /\ LET r1 == [r EXCEPT !.time = r.clock - r.time,
                           !.pc = "body", !.fn = "", !.fip = 0,
                           !.log = Append(@, <<"limit", r.i>>)]
       IN  Become(p, test_assert(r1, time_limit_kept(r1.time, CurStmt(r1).limit)))

\* the process is seen to have used more processor time
Burn(p) ==
    LET r == proc[p] IN
    /\ r.pc \in {"body", "sfunc"}
    /\ r.burns < MaxBurns
    /\ UNCHANGED <<user, lib>>
    /\ \E d \in ClockSteps :
          Become(p, [r EXCEPT !.clock = @ + d, !.burns = @ + 1])

SoftStep(p) ==
    \/ MainStep(p)
    \/ RunTestsLoop(p)
    \/ TestPassed(p)
    \/ TestFailed(p)
    \/ Sweep(p)
    \/ Assertion(p)
    \/ SoftCall(p)
    \/ SoftReturn(p)
    \/ Burn(p)

SoftNext == \E p \in Pids : SoftStep(p)

SoftSpec == SoftInit /\ [][SoftNext]_vars

\* how often entry <<what, i>> is in the log of r
Logged(r, what, i) == Len(SelectSeq(r.log, LAMBDA e : e = <<what, i>>))

\* the function of an assert_time_limit is called once, by the process that
\* runs the test, which sets no timer and makes no child for it
C20_CalledOnceHere ==
    /\ Live = {MainPid}
    /\ Main.timer = "off" /\ Main.child = -1 /\ ~Main.in_timed
    /\ \A i \in 0..(n - 1) :
          /\ Logged(Main, "func", i) <= 1
          /\ Logged(Main, "limit", i) <= Logged(Main, "func", i)
          /\ (Main.pc = "sfunc" /\ Main.i = i) =>
                Logged(Main, "func", i) = 1 /\ Logged(Main, "limit", i) = 0

\* a step of the process inside the function stays inside it, unless an
\* assertion of the function itself fails; the step that returns from it
\* fails the test exactly when the processor time used since the call is more
\* than the limit, and goes on with the test otherwise
C20_NotInterrupted ==
    LET r == proc[MainPid]
        r2 == proc'[MainPid]
    IN  (r.pc = "sfunc" /\ r2 # r) =>
          IF r.fip <= Len(Code(r))
          THEN \/ r2.pc = "sfunc" /\ r2.fn = r.fn /\ r2.fip \in {r.fip, r.fip + 1}
                  /\ r2.failures = r.failures /\ r2.reports = r.reports
               \/ CurStmt(r) = ASSERT_FAIL /\ r2.pc = "rt_fail"
          ELSE \/ r2.pc = "sfunc" /\ r2.fip = r.fip /\ r2.failures = r.failures
                  /\ r2.reports = r.reports
               \/ /\ r2.clock = r.clock
                  /\ IF r.clock - r.time > tests[r.i + 1][r.ip].limit \div UnitsPerTick
                     THEN r2.pc = "rt_fail" /\ r2.failures = r.failures + 1
                          /\ r2.reports = r.reports + 1
                     ELSE r2.pc = "body" /\ r2.ip = r.ip + 1
                          /\ r2.failures = r.failures /\ r2.reports = r.reports

\* C20: assert_time_limit calls the function once, in the process that runs
\* the test; nothing but the function itself ends the call before its return,
\* however long it takes; the assertion is made after the return and fails
\* exactly when the time measured is more than the limit.
C20_SoftLimitJudgesAfterReturn == [][C20_NotInterrupted]_vars /\ []C20_CalledOnceHere

\* the function took one tick more than the limit, ran to its end, and the
\* test has failed
C20_Witness ==
    /\ Main.pc = "rt_fail"
    /\ tests[Main.i + 1] = <<SOFT("ok", LIMIT_POS), ASSERT_OK>>
    /\ Main.time * UnitsPerTick = LIMIT_POS + UnitsPerTick
    /\ Logged(Main, "func", Main.i) = 1
    /\ Logged(Main, "limit", Main.i) = 1
    /\ Main.reports = 1

(***************************************************************************)
(* The scoped allocator called on its own: any sequence of calls, with any *)
(* pointer argument, and any answer of the C library.                      *)
(***************************************************************************)
AllocSizes == {1, 2}
AllocPtrs == {NULL} \cup Addrs

AllocInit ==
    /\ tests = <<>> /\ benchs = <<>> /\ warmup = 0 /\ times = 0
    /\ mainProg = <<>>
    /\ proc = [p \in Pids |-> NoProc]
    /\ alloc = NoAlloc
    /\ cmp = NoCmp
    /\ diag = NoDiag
    /\ win = NoWin

\* the call op(ptr, bytes) has been made on list m with the C library answering
\* a (block) and d (node), and has given res
Called_(op, ptr, bytes, a, d, res) ==
    [Handed(alloc, res.mem, res.ret) EXCEPT
        !.op = op, !.ptr = ptr, !.bytes = bytes, !.lib = a, !.libnode = d,
        !.ret = res.ret, !.pre = alloc.mem, !.freed = {}]

AllocMalloc ==
    /\ ~alloc.lost
    /\ UNCHANGED <<user, proc, cmp, diag, win>>
    /\ \E bytes \in AllocSizes, a \in MallocChoices(alloc.mem),
          d \in NodeChoices(alloc.mem) :
          alloc' = Called_("malloc", NULL, bytes, a, d,
                           testfunc_malloc(alloc.mem, bytes, a, d))

AllocCalloc ==
    /\ ~alloc.lost
    /\ UNCHANGED <<user, proc, cmp, diag, win>>
    /\ \E size \in AllocSizes, a \in MallocChoices(alloc.mem),
          d \in NodeChoices(alloc.mem) :
          alloc' = Called_("calloc", NULL, size, a, d,
                           testfunc_calloc(alloc.mem, 1, size, a, d))

\* the C library is asked only when ptr is NULL (malloc) or has a record (realloc)
AllocRealloc ==
    /\ ~alloc.lost
    /\ UNCHANGED <<user, proc, cmp, diag, win>>
    /\ \E ptr \in AllocPtrs, bytes \in AllocSizes, d \in NodeChoices(alloc.mem) :
       \E a \in (IF ptr = NULL THEN MallocChoices(alloc.mem)
                 ELSE IF FindNode(alloc.mem, alloc.mem.head, ptr, MaxNodes + 2) = NULL
                      THEN {NULL}
                 ELSE ReallocChoices(alloc.mem, ptr)) :
          alloc' = Called_("realloc", ptr, bytes, a, d,
                           testfunc_realloc(alloc.mem, ptr, bytes, a, d))

AllocFree ==
    /\ ~alloc.lost
    /\ UNCHANGED <<user, proc, cmp, diag, win>>
    /\ \E ptr \in AllocPtrs :
          alloc' = Called_("free", ptr, 0, NULL, NULL,
                           [mem |-> testfunc_free(alloc.mem, ptr), ret |-> NULL])

AllocFreeAll ==
    /\ ~alloc.lost
    /\ UNCHANGED <<user, proc, cmp, diag, win>>
    /\ \E o \in testfunc_freeall(alloc.mem) :
          alloc' = [Called_("freeall", NULL, 0, NULL, NULL,
                            [mem |-> o.mem, ret |-> NULL])
                       EXCEPT !.lost = o.lost, !.freed = o.freed]

AllocNext ==
    \/ AllocMalloc
    \/ AllocCalloc
    \/ AllocRealloc
    \/ AllocFree
    \/ AllocFreeAll

AllocSpec == AllocInit /\ [][AllocNext]_vars

\* the record of list m that holds ptr, NULL if there is none
RecordOf(m, ptr) == FindNode(m, m.head, ptr, MaxNodes + 2)

\* the records of list m whose pointer is ptr
RecordsHolding(m, ptr) ==
    {j \in 1..Len(TrackedRecords(m)) : m.node[TrackedRecords(m)[j]].ptr = ptr}

\* C13 (as claimed): every pointer a successful call returned and that has not
\* been freed has exactly one record, and no two records hold the same pointer.
C13_OneRecordPerLivePointer ==
    ~alloc.lost =>
        /\ \A ptr \in alloc.handed :
              Cardinality(RecordsHolding(alloc.mem, ptr)) = 1
        /\ \A j \in 1..Len(TrackedRecords(alloc.mem)) :
              Cardinality(RecordsHolding(alloc.mem,
                  alloc.mem.node[TrackedRecords(alloc.mem)[j]].ptr)) = 1

\* C14 (as claimed): testfunc_realloc of a tracked pointer whose reallocation
\* fails returns NULL and leaves the record with the original pointer and
\* byte count, so that a later testfunc_free of the pointer releases the block.
C14_FailedReallocKeepsRecord ==
    (/\ alloc.op = "realloc"
     /\ alloc.ptr # NULL
     /\ RecordOf(alloc.pre, alloc.ptr) # NULL
     /\ alloc.lib = NULL)
    => /\ alloc.ret = NULL
       /\ alloc.mem.node[RecordOf(alloc.pre, alloc.ptr)]
             = alloc.pre.node[RecordOf(alloc.pre, alloc.ptr)]
       /\ alloc.ptr \notin testfunc_free(alloc.mem, alloc.ptr).blocks

\* C15: testfunc_free(NULL) and testfunc_free of a pointer without a record
\* change nothing; testfunc_free of a tracked pointer takes exactly its record
\* out of the list and releases exactly its block and its node, the other
\* records keeping their order, pointers and byte counts.
C15_FreeFrame ==
    alloc.op = "free" =>
        LET pre  == alloc.pre
            post == alloc.mem
            cur  == RecordOf(pre, alloc.ptr)
        IN  IF alloc.ptr = NULL \/ cur = NULL
            THEN post = pre
            ELSE /\ TrackedRecords(post)
                       = SelectSeq(TrackedRecords(pre), LAMBDA x : x # cur)
                 /\ Len(TrackedRecords(post)) = Len(TrackedRecords(pre)) - 1
                 /\ post.blocks = pre.blocks \ {alloc.ptr}
                 /\ post.live = pre.live \ {cur}
                 /\ \A j \in 1..Len(TrackedRecords(post)) :
                       LET x == TrackedRecords(post)[j]
                       IN  /\ post.node[x].ptr = pre.node[x].ptr
                           /\ post.node[x].bytes = pre.node[x].bytes

C15_Witness ==
    /\ alloc.op = "free"
    /\ Len(TrackedRecords(alloc.pre)) = 2
    /\ Len(TrackedRecords(alloc.mem)) = 1
    /\ alloc.ptr \in alloc.pre.blocks
    /\ alloc.ptr \notin alloc.mem.blocks

\* C16: testfunc_realloc(NULL, bytes) gives the result and the list that
\* testfunc_malloc(bytes) gives from the same list with the same answers of
\* the C library.
C16_ReallocNullIsMalloc ==
    /\ (alloc.op = "realloc" /\ alloc.ptr = NULL)
       => [mem |-> alloc.mem, ret |-> alloc.ret]
             = testfunc_malloc(alloc.pre, alloc.bytes, alloc.lib, alloc.libnode)
    /\ \A bytes \in AllocSizes, a \in MallocChoices(alloc.mem),
          d \in NodeChoices(alloc.mem) :
          testfunc_realloc(alloc.mem, NULL, bytes, a, d)
             = testfunc_malloc(alloc.mem, bytes, a, d)

C16_Witness ==
    /\ alloc.op = "realloc"
    /\ alloc.ptr = NULL
    /\ alloc.ret # NULL
    /\ Len(TrackedRecords(alloc.pre)) = 1
    /\ Len(TrackedRecords(alloc.mem)) = 2
    /\ alloc.mem.node[TrackedRecords(alloc.mem)[2]].ptr = alloc.ret

(***************************************************************************)
(* genarrays.c and the deep array assertions of catom.c.                   *)
(* An array is a set of objects in memory, each a sequence of cells: bytes *)
(* in the objects that hold elements, pointers in the objects of a         *)
(* pointer-to-pointer array that hold rows. A pointer is an object and an  *)
(* offset in it (in bytes, or in pointers).                                *)
(***************************************************************************)
\* size_t arithmetic: only the wrap of 0 - 1 to a value above every count is
\* used, and the integers of the model checker have 32 bits
SizeRange == 2^30
SizeT(x) == x % SizeRange

Ptr(obj, off) == [obj |-> obj, off |-> off]

\* ns[k] * ... * ns[Len(ns)]
RECURSIVE ProductFrom(_, _)
ProductFrom(ns, k) == IF k > Len(ns) THEN 1 ELSE ns[k] * ProductFrom(ns, k + 1)

Product(ns) == ProductFrom(ns, 1)

\* the dimension vectors { d1, ..., dk } given after the size argument
DimVectors ==
    {ns \in UNION {[1..k -> 0..MaxDim] : k \in 1..MaxDims} : Product(ns) <= MaxElems}

\* the index vectors within dimensions ns
IndexVectors(ns) ==
    {w \in [1..Len(ns) -> 0..MaxDim] : \A k \in 1..Len(ns) : w[k] < ns[k]}

\* C's order of the elements of T a[d1]...[dk]: the place of a[w1]...[wk]
RECURSIVE PlaceUpTo(_, _, _)
PlaceUpTo(w, ns, k) == IF k = 0 THEN 0 ELSE PlaceUpTo(w, ns, k - 1) * ns[k] + w[k]

Place(w, ns) == PlaceUpTo(w, ns, Len(w))

\* the bytes of the element at place e of the first array: every byte of the
\* array is different; the second array differs from it, in the last byte of
\* the element, at the places in diff
ElemBytes(e, size, changed) ==
    [k \in 1..size |-> IF changed /\ k = size THEN 255 ELSE e * size + (k - 1)]

\* the logical array: the element at each index vector
Logical(ns, size, diff) ==
    [w \in IndexVectors(ns) |-> ElemBytes(Place(w, ns), size, Place(w, ns) \in diff)]

RECURSIVE Concat(_, _, _)
\* f[from] \o ... \o f[to - 1]
Concat(f, from, to) == IF from >= to THEN <<>> ELSE f[from] \o Concat(f, from + 1, to)

\* T a[d1]...[dk]: one object, the elements in C's order
FlatArray(ns, size, diff) ==
    [obj \in {<<>>} |->
        Concat([e \in 0..(Product(ns) - 1) |-> ElemBytes(e, size, e \in diff)],
               0, Product(ns))]

\* T *...* a: the object at a prefix of an index vector holds pointers to the
\* objects one index longer, those at the last level hold the elements of a row
Prefixes(ns) ==
    UNION {{w \in [1..k -> 0..MaxDim] : \A j \in 1..k : w[j] < ns[j]} :
           k \in 0..(Len(ns) - 1)}

JaggedArray(ns, size, diff) ==
    [obj \in Prefixes(ns) |->
        IF Len(obj) = Len(ns) - 1
        THEN Concat([j \in 0..(ns[Len(ns)] - 1) |->
                        Logical(ns, size, diff)[obj \o <<j>>]], 0, ns[Len(ns)])
        ELSE [j \in 1..ns[Len(obj) + 1] |-> Ptr(obj \o <<j - 1>>, 0)]]

Array(isptp, ns, size, diff) ==
    IF isptp THEN JaggedArray(ns, size, diff) ELSE FlatArray(ns, size, diff)

\* the pointer to an array handed to an assertion
Base == Ptr(<<>>, 0)

\* get_from_flat: the loop for (n = argn - 1; n < argn; --n)
RECURSIVE flat_offset(_, _, _, _, _, _)
flat_offset(ns, argn, where, nn, offset, mult) ==
    IF ~(nn < argn) THEN offset
    ELSE flat_offset(ns, argn, where, SizeT(nn - 1),
                     SizeT(offset + where[nn + 1] * mult), SizeT(mult * ns[nn + 1]))

\* a get_from_flat that takes the offset in elements for one in bytes
get_from_flat_noSize(arr, size, ns, argn, where) ==
    Ptr(arr.obj, arr.off + flat_offset(ns, argn, where, SizeT(argn - 1), 0, 1))

get_from_flat(arr, size, ns, argn, where) ==
    Ptr(arr.obj, arr.off + flat_offset(ns, argn, where, SizeT(argn - 1), 0, 1) * size)

\* get_from_ptp in heap h: the pointer it returns and the pointer cells it reads;
\* where + k is the index vector it has been handed
RECURSIVE ptp_walk(_, _, _, _, _, _)
ptp_walk(h, arr, size, argn, where, k) ==
    IF argn = 1 THEN [ptr |-> Ptr(arr.obj, arr.off + where[k + 1] * size), reads |-> {}]
    ELSE LET cell == Ptr(arr.obj, arr.off + where[k + 1])
             rest == ptp_walk(h, h[cell.obj][cell.off + 1], size, argn - 1, where, k + 1)
         IN  [ptr |-> rest.ptr, reads |-> {cell} \cup rest.reads]

get_from_ptp(h, arr, size, argn, where) == ptp_walk(h, arr, size, argn, where, 0)

\* get
get(h, arr, isptp, size, ns, argn, where) ==
    IF isptp THEN get_from_ptp(h, arr, size, argn, where)
    ELSE [ptr |-> get_from_flat(arr, size, ns, argn, where), reads |-> {}]

\* the size bytes at ptr in heap h, as memcmp reads them
BytesAt(h, ptr, size) == SubSeq(h[ptr.obj], ptr.off + 1, ptr.off + size)

\* memory_is_equals, memory_is_not_equals on the bytes memcmp reads
memory_is_equals(m1, m2) == m1 = m2
memory_is_not_equals(m1, m2) == ~memory_is_equals(m1, m2)

Validate(validator, m1, m2) ==
    IF validator = "memory_is_equals" THEN memory_is_equals(m1, m2)
    ELSE memory_is_not_equals(m1, m2)

\* an add_one that wraps an index without the carry to the one before it
add_one_noCarry(nums, ns, where, max) ==
    IF where < max
    THEN IF nums[where + 1] + 1 >= ns[where + 1]
         THEN [nums EXCEPT ![where + 1] = 0]
         ELSE [nums EXCEPT ![where + 1] = @ + 1]
    ELSE nums

\* an add_one that lets an index reach its dimension before it wraps
RECURSIVE add_one_lateWrap(_, _, _, _)
add_one_lateWrap(nums, ns, where, max) ==
    IF where < max
    THEN IF nums[where + 1] + 1 > ns[where + 1]
         THEN add_one_lateWrap([nums EXCEPT ![where + 1] = 0], ns, SizeT(where - 1), max)
         ELSE [nums EXCEPT ![where + 1] = @ + 1]
    ELSE nums

\* add_one(nums, ns, where, max)
RECURSIVE add_one(_, _, _, _)
add_one(nums, ns, where, max) ==
    IF where < max
    THEN IF nums[where + 1] + 1 >= ns[where + 1]
         THEN add_one([nums EXCEPT ![where + 1] = 0], ns, SizeT(where - 1), max)
         ELSE [nums EXCEPT ![where + 1] = @ + 1]
    ELSE nums

\* the positions of nums that add_one(nums, ns, where, max) writes: ++nums[where]
\* and nums[where] = 0 happen only behind where < max, and the carry goes on
\* at where - 1 in size_t
RECURSIVE add_one_writes(_, _, _, _)
add_one_writes(nums, ns, where, max) ==
    IF where < max
    THEN {where} \cup (IF nums[where + 1] + 1 >= ns[where + 1]
                       THEN add_one_writes(nums, ns, SizeT(where - 1), max)
                       ELSE {})
    ELSE {}

\* total_items = ns[0]; for (i = 1; i < argn; ++i) total_items *= ns[i];
RECURSIVE total_items(_, _, _, _)
total_items(ns, argn, i, total) ==
    IF i < argn THEN total_items(ns, argn, i + 1, SizeT(total * ns[i + 1])) ELSE total

\* the i-th turn of the loop of compare_arrays and compare_arrays_some, with the
\* two calls of get and the call of the validator: what it found and read
Turn(a, current) ==
    LET g1 == get(a.h1, Base, a.ptp1, a.size, a.ns, a.argn, current)
        g2 == get(a.h2, Base, a.ptp2, a.size, a.ns, a.argn, current)
    IN  [valid |-> Validate(a.validator, BytesAt(a.h1, g1.ptr, a.size),
                                         BytesAt(a.h2, g2.ptr, a.size)),
         reads |-> {<<1, x>> : x \in g1.reads \cup {g1.ptr}}
                   \cup {<<2, x>> : x \in g2.reads \cup {g2.ptr}}]

\* a compare_arrays that goes on to the last element after a rejected one
RECURSIVE compare_loop_noStop(_, _, _, _, _)
compare_loop_noStop(a, total, i, current, reads) ==
    IF i >= total THEN [pass |-> TRUE, reads |-> reads]
    ELSE LET t == Turn(a, current)
             rest == compare_loop_noStop(a, total, i + 1,
                               add_one(current, a.ns, SizeT(a.argn - 1), a.argn),
                               reads \cup t.reads)
         IN  [pass |-> t.valid /\ rest.pass, reads |-> rest.reads]

\* compare_arrays from turn i on: the first element the validator rejects
\* fails the assertion (in runner mode the call ends there)
RECURSIVE compare_loop(_, _, _, _, _)
compare_loop(a, total, i, current, reads) ==
    IF i >= total THEN [pass |-> TRUE, reads |-> reads]
    ELSE LET t == Turn(a, current)
         IN  IF ~t.valid THEN [pass |-> FALSE, reads |-> reads \cup t.reads]
             ELSE compare_loop(a, total, i + 1,
                               add_one(current, a.ns, SizeT(a.argn - 1), a.argn),
                               reads \cup t.reads)

compare_arrays(a) ==
    compare_loop(a, total_items(a.ns, a.argn, 1, a.ns[1]), 0,
                 [k \in 1..a.argn |-> 0], {})

\* a compare_arrays_some that lets an empty walk pass
RECURSIVE some_loop_emptyPasses(_, _, _, _, _, _)
some_loop_emptyPasses(a, total, i, current, matches, reads) ==
    IF i >= total THEN [pass |-> matches > 0 \/ total = 0, reads |-> reads]
    ELSE LET t == Turn(a, current)
         IN  some_loop_emptyPasses(a, total, i + 1,
                       add_one(current, a.ns, SizeT(a.argn - 1), a.argn),
                       IF t.valid THEN matches + 1 ELSE matches,
                       reads \cup t.reads)

\* compare_arrays_some from turn i on: __test_assert__(matches > 0) at the end
RECURSIVE some_loop(_, _, _, _, _, _)
some_loop(a, total, i, current, matches, reads) ==
    IF i >= total THEN [pass |-> matches > 0, reads |-> reads]
    ELSE LET t == Turn(a, current)
         IN  some_loop(a, total, i + 1,
                       add_one(current, a.ns, SizeT(a.argn - 1), a.argn),
                       IF t.valid THEN matches + 1 ELSE matches,
                       reads \cup t.reads)

compare_arrays_some(a) ==
    some_loop(a, total_items(a.ns, a.argn, 1, a.ns[1]), 0,
              [k \in 1..a.argn |-> 0], 0, {})

\* the arguments of a deep array assertion
Args(h1, h2, ptp1, ptp2, size, ns, validator) ==
    [h1 |-> h1, h2 |-> h2, ptp1 |-> ptp1, ptp2 |-> ptp2, size |-> size,
     argn |-> Len(ns), ns |-> ns, validator |-> validator]

\* __assert_deep_array_equals, __assert_deep_array_not_equals
assert_deep_array_equals(h1, h2, ptp1, ptp2, size, ns) ==
    compare_arrays(Args(h1, h2, ptp1, ptp2, size, ns, "memory_is_equals"))

assert_deep_array_not_equals(h1, h2, ptp1, ptp2, size, ns) ==
    compare_arrays_some(Args(h1, h2, ptp1, ptp2, size, ns, "memory_is_not_equals"))

\* the two arrays of cmp in memory: the second differs from the first at the
\* places in cmp.diff
Arr1 == Array(cmp.ptp1, cmp.ns, cmp.size, {})
Arr2 == Array(cmp.ptp2, cmp.ns, cmp.size, cmp.diff)

ArrInit ==
    /\ tests = <<>> /\ benchs = <<>> /\ warmup = 0 /\ times = 0
    /\ mainProg = <<>>
    /\ proc = [p \in Pids |-> NoProc]
    /\ alloc = NoAlloc
    /\ diag = NoDiag
    /\ win = NoWin
    /\ \E ns \in DimVectors, size \in 1..MaxSize, ptp1 \in BOOLEAN, ptp2 \in BOOLEAN :
       \E diff \in SUBSET (0..(Product(ns) - 1)) :
          cmp = [op |-> "ready", ns |-> ns, size |-> size, diff |-> diff,
                 ptp1 |-> ptp1, ptp2 |-> ptp2,
                 where |-> <<>>, flat |-> <<>>, ptp |-> <<>>,
                 pass |-> FALSE, reads |-> {},
                 current |-> [k \in 1..Len(ns) |-> 0], calls |-> 0, writes |-> {}]

\* get is called for an index vector on the second array, flat and
\* pointer-to-pointer
ArrGet ==
    /\ cmp.op = "ready"
    /\ UNCHANGED <<user, proc, alloc, diag, win>>
    /\ \E w \in IndexVectors(cmp.ns) :
          LET f == FlatArray(cmp.ns, cmp.size, cmp.diff)
              j == JaggedArray(cmp.ns, cmp.size, cmp.diff)
          IN  cmp' = [cmp EXCEPT
                  !.op = "get", !.where = w,
                  !.flat = BytesAt(f, get(f, Base, FALSE, cmp.size, cmp.ns,
                                          Len(cmp.ns), w).ptr, cmp.size),
                  !.ptp = BytesAt(j, get(j, Base, TRUE, cmp.size, cmp.ns,
                                         Len(cmp.ns), w).ptr, cmp.size)]

ArrEquals ==
    /\ cmp.op = "ready"
    /\ UNCHANGED <<user, proc, alloc, diag, win>>
    /\ LET res == assert_deep_array_equals(Arr1, Arr2, cmp.ptp1, cmp.ptp2,
                                           cmp.size, cmp.ns)
       IN  cmp' = [cmp EXCEPT !.op = "equals", !.pass = res.pass, !.reads = res.reads]

ArrNotEquals ==
    /\ cmp.op = "ready"
    /\ UNCHANGED <<user, proc, alloc, diag, win>>
    /\ LET res == assert_deep_array_not_equals(Arr1, Arr2, cmp.ptp1, cmp.ptp2,
                                               cmp.size, cmp.ns)
       IN  cmp' = [cmp EXCEPT !.op = "not_equals", !.pass = res.pass,
                              !.reads = res.reads]

\* __assert_array_not_equals from turn i on: the loop runs over n * size byte
\* offsets and compares size bytes at each; b1 and b2 are the memory from the
\* start of each array on
RECURSIVE array_ne_loop(_, _, _, _, _, _)
array_ne_loop(b1, b2, total, i, size, reads) ==
    IF i >= total THEN [pass |-> FALSE, reads |-> reads]
    ELSE IF ~memory_is_equals(SubSeq(b1, i + 1, i + size), SubSeq(b2, i + 1, i + size))
         THEN [pass |-> TRUE, reads |-> reads \cup (i..(i + size - 1))]
         ELSE array_ne_loop(b1, b2, total, i + 1, size, reads \cup (i..(i + size - 1)))

assert_array_not_equals(b1, b2, nitems, size) ==
    array_ne_loop(b1, b2, SizeT(nitems * size), 0, size, {})

\* the values a byte past the end of an array may be found to have
BeyondBytes == {0, 255}

\* assert_array_not_equals(arr1, arr2, n, size) on two arrays of exactly n
\* items: what lies behind each array is not the caller's to know
ArrFlatNotEquals ==
    /\ cmp.op = "ready"
    /\ Len(cmp.ns) = 1 /\ ~cmp.ptp1 /\ ~cmp.ptp2
    /\ UNCHANGED <<user, proc, alloc, diag, win>>
    /\ \E t1 \in [1..(cmp.size - 1) -> BeyondBytes],
          t2 \in [1..(cmp.size - 1) -> BeyondBytes] :
          LET res == assert_array_not_equals(Arr1[<<>>] \o t1, Arr2[<<>>] \o t2,
                                             cmp.ns[1], cmp.size)
          IN  cmp' = [cmp EXCEPT !.op = "array_not_equals", !.pass = res.pass,
                                 !.reads = res.reads]

\* add_one(current, ns, argn - 1, argn), called as the loops of compare_arrays
\* call it, once more on the vector the calls before left: at most as many
\* calls as the array has elements
ArrAddOne ==
    /\ cmp.op \in {"ready", "add_one"}
    /\ cmp.calls < Product(cmp.ns)
    /\ UNCHANGED <<user, proc, alloc, diag, win>>
    /\ LET argn == Len(cmp.ns)
       IN  cmp' = [cmp EXCEPT
               !.op = "add_one", !.calls = @ + 1,
               !.current = add_one(cmp.current, cmp.ns, SizeT(argn - 1), argn),
               !.writes = @ \cup add_one_writes(cmp.current, cmp.ns,
                                                SizeT(argn - 1), argn)]

ArrNext ==
    \/ ArrAddOne
    \/ ArrGet
    \/ ArrEquals
    \/ ArrNotEquals
    \/ ArrFlatNotEquals

ArrSpec == ArrInit /\ [][ArrNext]_vars

\* the second array of cmp as a logical array, and whether the two arrays of
\* cmp hold the same bytes at every index
Elems2 == Logical(cmp.ns, cmp.size, cmp.diff)
EveryIndexEqual ==
    \A w \in IndexVectors(cmp.ns) :
        Logical(cmp.ns, cmp.size, {})[w] = Logical(cmp.ns, cmp.size, cmp.diff)[w]

\* C17: for every dimension vector and every index vector within it, get on
\* the flat encoding and get on the pointer-to-pointer encoding of an array
\* give the same element, the one the array holds at that index.
C17_FlatAndJaggedAgree ==
    cmp.op = "get" =>
        /\ cmp.flat = cmp.ptp
        /\ cmp.flat = Elems2[cmp.where]

C17_Witness ==
    /\ cmp.op = "get"
    /\ cmp.ns = <<2, 2>>
    /\ cmp.size = 2
    /\ cmp.where = <<1, 0>>
    /\ cmp.diff = {2}
    /\ cmp.flat = <<4, 255>>
    /\ cmp.ptp = <<4, 255>>

\* C18: in every combination of encodings, assert_deep_array_equals passes
\* exactly when the arrays are byte-equal at every index and
\* assert_deep_array_not_equals fails exactly then; swapping the two arrays
\* changes neither outcome, and an array is deep-equal to itself in either
\* encoding.
C18_DeepCompareExact ==
    cmp.op # "none" =>
        /\ cmp.op = "equals" => (cmp.pass <=> EveryIndexEqual)
        /\ cmp.op = "not_equals" => (~cmp.pass <=> EveryIndexEqual)
        /\ assert_deep_array_equals(Arr1, Arr2, cmp.ptp1, cmp.ptp2,
                                    cmp.size, cmp.ns).pass
              = assert_deep_array_equals(Arr2, Arr1, cmp.ptp2, cmp.ptp1,
                                         cmp.size, cmp.ns).pass
        /\ assert_deep_array_not_equals(Arr1, Arr2, cmp.ptp1, cmp.ptp2,
                                        cmp.size, cmp.ns).pass
              = assert_deep_array_not_equals(Arr2, Arr1, cmp.ptp2, cmp.ptp1,
                                             cmp.size, cmp.ns).pass
        /\ assert_deep_array_equals(Arr2, Arr2, cmp.ptp2, cmp.ptp2,
                                    cmp.size, cmp.ns).pass
        /\ assert_deep_array_equals(Arr2, Array(~cmp.ptp2, cmp.ns, cmp.size, cmp.diff),
                                    cmp.ptp2, ~cmp.ptp2, cmp.size, cmp.ns).pass

C18_Witness ==
    /\ cmp.op = "equals"
    /\ cmp.ns = <<2, 2>>
    /\ cmp.size = 2
    /\ cmp.ptp1 /\ ~cmp.ptp2
    /\ cmp.diff = {2}
    /\ ~cmp.pass

\* C19: with a zero among the dimensions the walk visits no element: nothing
\* of either array is read, assert_deep_array_equals passes and
\* assert_deep_array_not_equals fails.
C19_ZeroDimensionVisitsNothing ==
    (cmp.op \in {"equals", "not_equals"} /\ \E k \in 1..Len(cmp.ns) : cmp.ns[k] = 0)
    => /\ cmp.reads = {}
       /\ cmp.op = "equals" => cmp.pass
       /\ cmp.op = "not_equals" => ~cmp.pass

C19_Witness ==
    /\ cmp.op = "not_equals"
    /\ cmp.ns = <<2, 0>>
    /\ cmp.ptp1 /\ cmp.ptp2
    /\ ~cmp.pass
    /\ cmp.reads = {}

(***************************************************************************)
(* Further properties of the runner with the POSIX hard timed driver.      *)
(***************************************************************************)
\* fork has just answered -1 to process state r, now r2
ForkJustFailed(r, r2) ==
    r.pc = "body" /\ AtStmt(r, "hard") /\ ~r.nofork /\ r2.pc # "none" /\ r2.nofork

\* the step in which fork fails makes no process, and in a test it is the
\* step of a failed assertion: one report, one more failure, and control at
\* the failure branch of __run_test
C21_FailedForkAsserts ==
    \A p \in Pids :
        ForkJustFailed(proc[p], proc'[p]) =>
            /\ \A q \in Pids : proc[q].pc = "none" => proc'[q].pc = "none"
            /\ \A q \in Pids : proc'[q].pc = "func" => proc[q].pc = "func"
            /\ ~proc[p].in_benchmark =>
                  /\ proc'[p].pc = "rt_fail"
                  /\ proc'[p].failures = proc[p].failures + 1
                  /\ proc'[p].reports = proc[p].reports + 1

\* from the failed fork to the end of the test its function runs in no child
\* of the process, the counter is not touched again, and the test is marked
\* failed
C21_FailedForkMarksTest ==
    \A p \in Pids :
        LET r == proc[p] IN
        (r.nofork /\ r.unit = "test" /\ r.pc \notin {"none", "zombie"}) =>
            /\ r.pc \in {"rt_fail", "rt_sweep", "rt_loop"}
            /\ r.reports = 1
            /\ r.pc = "rt_sweep" => ~r.passed[r.i + 1]
            /\ r.pc = "rt_loop" => ~r.passed[r.i]
            /\ r.failures = Cardinality({k \in 1..r.i : ~r.passed[k]})
                                + (IF r.pc = "rt_fail" THEN 1 ELSE 0)
                                + (IF r.pc = "rt_sweep" THEN 1 ELSE 0)

\* C21: when fork fails in the hard timed driver no process is made to run
\* the function, and the failure is a failed assertion of the test being run:
\* the failure counter goes up by one, once, and the test is marked failed.
C21_ForkFailureFailsTest == [][C21_FailedForkAsserts]_vars /\ []C21_FailedForkMarksTest

C21_Witness ==
    /\ Main.nofork
    /\ Main.pc = "rt_sweep"
    /\ tests[Main.i + 1] = <<HARD("ok", LIMIT_POS), ASSERT_OK>>
    /\ ~Main.passed[Main.i + 1]
    /\ Main.failures = 1
    /\ Live = {MainPid}

\* the tests of r's run that have been given their flag
Judged(r) == IF r.pc = "rt_sweep" THEN r.i + 1 ELSE r.i

\* C24: all through a run of the tests the failure counter is the number of
\* tests run so far that failed (one more between the failure and the setting
\* of the flag): it goes up once for each failed test and never otherwise,
\* never exceeds the number of tests, and n - failures, the passed count of
\* the summary, does not wrap.
C24_CounterCountsFailedTests ==
    \A p \in Pids :
        LET r == proc[p] IN
        /\ (r.unit = "test" /\ r.pc \notin {"none", "zombie"}) =>
              /\ r.failures = Cardinality({k \in 1..Judged(r) : ~r.passed[k]})
                                 + (IF r.pc = "rt_fail" THEN 1 ELSE 0)
              /\ r.failures <= n
              /\ SizeT(n - r.failures) = n - r.failures
        /\ JustReturned(r, "run_tests") =>
              /\ r.failures = Cardinality({k \in 1..n : ~r.passed[k]})
              /\ SizeT(n - r.failures) = Cardinality({k \in 1..n : r.passed[k]})

C24_Witness ==
    /\ JustReturned(Main, "run_tests")
    /\ tests = << <<HARD("loop", LIMIT_POS), ASSERT_OK>>, <<ASSERT_FAIL, ASSERT_OK>> >>
    /\ Main.passed = <<FALSE, FALSE>>
    /\ Main.failures = 2

\* C25: a child of the hard timed driver is in the function it was forked to
\* run, or has ended: it is never in the runner's code, in a test procedure or
\* at a verdict.
C25_ChildOnlyRunsFunction ==
    \A p \in Pids \ {MainPid} :
        proc[p].pc \in {"none", "zombie", "func"}

\* process state r is executing a user procedure: a test, a benchmark or a
\* timed function
InUserCode(r) == r.pc \in {"body", "func"}

\* the processes other than main that have not ended
Subsidiaries == {p \in Pids \ {MainPid} : proc[p].pc \notin {"none", "zombie"}}

\* C26: no two processes are in user procedures at the same time, and while
\* a process other than main is alive main is blocked in waitpid.
C26_NoUserCodeInParallel ==
    /\ \A p \in Pids, q \in Pids :
          (p # q /\ InUserCode(proc[p])) => ~InUserCode(proc[q])
    /\ Subsidiaries # {} => Main.pc = "t_wait"

\* C27: on the main process the benchmark flag and the timed flag are never
\* both true.
C27_OneModeAtATime == ~(Main.in_benchmark /\ Main.in_timed)

\* C23: assert_array_not_equals on arrays of exactly n items of size bytes
\* reads none but the first n * size bytes of each, and fails exactly when the
\* n items of the two arrays are all byte-equal.
C23_ArrayNotEqualsInBounds ==
    cmp.op = "array_not_equals" =>
        /\ cmp.reads \subseteq 0..(cmp.ns[1] * cmp.size - 1)
        /\ ~cmp.pass <=> EveryIndexEqual

(***************************************************************************)
(* What a failed assertion reports: the call site kept by __gen_assert__   *)
(* and the message kept by the verbose formatters, over one test procedure *)
(* that makes assertions of the catalog.                                   *)
(***************************************************************************)
\* the assertions followed, one for each way the catalog writes its message
DiagNames ==
    {"assert_true", "assert_wide_string_equals", "assert_equals", "assert_time_limit"}

\* a call of the test procedure: the assertion, whether its condition holds,
\* and for assert_time_limit the (passing) assertions of the function
DiagCalls ==
    [name : DiagNames \ {"assert_time_limit"}, ok : BOOLEAN, inner : {<<>>}]
    \cup [name : {"assert_time_limit"}, ok : BOOLEAN,
          inner : {<<>>, <<"assert_true">>, <<"assert_wide_string_equals">>}]

\* the call site of the k-th call of the test procedure, and of the j-th call
\* of the function of the k-th
Site(k, j, name) ==
    [caller |-> IF j = 0 THEN "test" ELSE "func", line |-> <<k, j>>, assert |-> name]

\* the globals as the program starts: empty strings, line 0, a zeroed Message
DiagStart(code, verbose) ==
    [op |-> "running", code |-> code, verbose |-> verbose, k |-> 1, j |-> 0,
     last |-> [caller |-> "", line |-> <<0, 0>>, assert |-> ""],
     msg |-> [width |-> "NARROW", text |-> <<0, 0>>],
     report |-> <<>>]

DiagInit ==
    /\ tests = <<>> /\ benchs = <<>> /\ warmup = 0 /\ times = 0
    /\ mainProg = <<>>
    /\ proc = [p \in Pids |-> NoProc]
    /\ alloc = NoAlloc
    /\ cmp = NoCmp
    /\ win = NoWin
    /\ \E code \in SeqsUpTo(DiagCalls, MaxCalls), verbose \in BOOLEAN :
          diag = DiagStart(code, verbose)

\* __set_last_file, __set_last_caller, __set_last_line, __set_last_assert
gen_assert(d, site) == [d EXCEPT !.last = site]

\* vbprintf and vbwprintf: the message of the check at line is kept, narrow or
\* wide, whether or not it is printed
vbprintf(d, line) == [d EXCEPT !.msg = [width |-> "NARROW", text |-> line]]
vbwprintf(d, line) == [d EXCEPT !.msg = [width |-> "WIDE", text |-> line]]

\* print_obj_hashes
print_obj_hashes(d, line) == IF d.verbose THEN vbprintf(d, line) ELSE d

\* what the function of an assertion does before it checks its condition
Formatted(d, name, line) ==
    CASE name = "assert_true" -> vbprintf(d, line)
      [] name = "assert_wide_string_equals" -> vbwprintf(d, line)
      [] name = "assert_equals" -> print_obj_hashes(d, line)
      [] OTHER -> d

\* __test_assert__(cond), as far as the report goes: a failure is formatted
\* from the globals and ends the test
diag_test_assert(d, cond) ==
    IF cond THEN d
    ELSE [d EXCEPT !.op = "failed", !.report = [last |-> d.last, msg |-> d.msg]]

\* the call being made: of the test procedure, or of the function of an
\* assert_time_limit
DiagCall(d) ==
    IF d.j = 0 THEN d.code[d.k]
    ELSE [name |-> d.code[d.k].inner[d.j], ok |-> TRUE, inner |-> <<>>]

\* control passes to the next call
DiagAdvance(d) ==
    IF d.op # "running" THEN d
    ELSE IF d.j = 0 THEN [d EXCEPT !.k = @ + 1] ELSE [d EXCEPT !.j = @ + 1]

\* an assertion other than assert_time_limit is made
DiagAssert ==
    /\ diag.op = "running"
    /\ diag.k <= Len(diag.code)
    /\ diag.j <= Len(diag.code[diag.k].inner)
    /\ DiagCall(diag).name # "assert_time_limit"
    /\ UNCHANGED <<user, proc, alloc, cmp, win>>
    /\ LET c == DiagCall(diag)
           site == Site(diag.k, diag.j, c.name)
       IN  diag' = DiagAdvance(diag_test_assert(
                       Formatted(gen_assert(diag, site), c.name, site.line), c.ok))

\* assert_time_limit(func, limit): __gen_assert__, then __assert_time_limit
\* calls func
DiagSoftCall ==
    /\ diag.op = "running"
    /\ diag.k <= Len(diag.code)
    /\ diag.j = 0
    /\ DiagCall(diag).name = "assert_time_limit"
    /\ UNCHANGED <<user, proc, alloc, cmp, win>>
    /\ diag' = [gen_assert(diag, Site(diag.k, 0, "assert_time_limit")) EXCEPT !.j = 1]

\* __assert_time_limit: func has returned, the time it took is checked
DiagSoftReturn ==
    /\ diag.op = "running"
    /\ diag.k <= Len(diag.code)
    /\ diag.j > Len(diag.code[diag.k].inner)
    /\ UNCHANGED <<user, proc, alloc, cmp, win>>
    /\ diag' = DiagAdvance(diag_test_assert([diag EXCEPT !.j = 0], diag.code[diag.k].ok))

DiagNext ==
    \/ DiagAssert
    \/ DiagSoftCall
    \/ DiagSoftReturn

DiagSpec == DiagInit /\ [][DiagNext]_vars

\* the call of the test procedure whose failure has been reported
FailedCall == diag.code[diag.k]

\* C28: the file, function, line and assertion name of a failure report are
\* those of the call site of the assertion that failed.
C28_ReportNamesFailedCall ==
    diag.op = "failed" => diag.report.last = Site(diag.k, 0, FailedCall.name)

\* C29: the message of a failure report is the one written for the check
\* that failed, read in the width it was written in.
C29_ReportShowsOwnMessage ==
    diag.op = "failed" =>
        /\ diag.report.msg.text = <<diag.k, 0>>
        /\ diag.report.msg.width = "WIDE" <=> FailedCall.name = "assert_wide_string_equals"

(***************************************************************************)
(* The Windows hard timed driver: one test that calls                      *)
(* assert_time_limit_async. The worker thread runs the function on the     *)
(* globals of the process: failures, in_timed, test_thread, the semaphore  *)
(* and the tracked-allocation list are shared with the main thread.        *)
(***************************************************************************)
\* the functions handed to the driver
WinFuncs == SeqsUpTo({ASSERT_OK, ASSERT_FAIL, MALLOC, LOOP}, MaxCalls)

\* the list as the test calls the driver: empty, or with a block of its own
WinLists == {InitMem, testfunc_malloc(InitMem, 1, MaxAddr, MaxNodes).mem}

WinInit ==
    /\ tests = <<>> /\ benchs = <<>> /\ warmup = 0 /\ times = 0
    /\ mainProg = <<>>
    /\ proc = [p \in Pids |-> NoProc]
    /\ alloc = NoAlloc
    /\ cmp = NoCmp
    /\ diag = NoDiag
    /\ \E func \in WinFuncs, m \in WinLists :
          win = [op |-> "test", func |-> func,
                 \* the globals
                 failures |-> 0, in_timed |-> FALSE, test_thread |-> "NULL",
                 semaphore |-> 0, mem |-> m,
                 \* the main thread, and what it has made of the test
                 pc |-> "call", test_result |-> "none", passed |-> "unset",
                 \* the worker thread, and the statement it runs next
                 worker |-> "none", wip |-> 0,
                 \* kept to state the properties: the list before the call,
                 \* an assertion of the worker has failed, and the worker has
                 \* gone on after one
                 mem0 |-> m, wfailed |-> FALSE, wwenton |-> FALSE]

\* TerminateThread(handle, -1): the thread of the handle ends where it is;
\* with a handle that is no thread's the call fails and nothing ends
TerminateThread(w, handle) ==
    IF handle = "worker" /\ w.worker = "running" THEN [w EXCEPT !.worker = "terminated"]
    ELSE w

\* __assert_time_limit_async up to the return of CreateThread: the function
\* and the semaphore are set, in_timed = true, and the worker exists
WinCreateThread ==
    /\ win.op = "test" /\ win.pc = "call"
    /\ UNCHANGED <<user, proc, alloc, cmp, diag>>
    /\ win' = [win EXCEPT !.semaphore = 0, !.in_timed = TRUE,
                          !.worker = "running", !.wip = 1, !.pc = "created"]

\* test_thread = (the handle CreateThread returned), then WaitForSingleObject
WinAssignHandle ==
    /\ win.op = "test" /\ win.pc = "created"
    /\ UNCHANGED <<user, proc, alloc, cmp, diag>>
    /\ win' = [win EXCEPT !.test_thread = "worker", !.pc = "wait"]

\* WaitForSingleObject returns WAIT_OBJECT_0: the semaphore was released
WinWaitSignaled ==
    /\ win.op = "test" /\ win.pc = "wait"
    /\ win.semaphore > 0
    /\ UNCHANGED <<user, proc, alloc, cmp, diag>>
    /\ win' = [win EXCEPT !.semaphore = @ - 1, !.test_result = "WAIT_OBJECT_0",
                          !.pc = "woken"]

\* WaitForSingleObject returns WAIT_TIMEOUT: the limit has passed
WinWaitTimeout ==
    /\ win.op = "test" /\ win.pc = "wait"
    /\ win.semaphore = 0
    /\ UNCHANGED <<user, proc, alloc, cmp, diag>>
    /\ win' = [win EXCEPT !.test_result = "WAIT_TIMEOUT", !.pc = "woken"]

\* the rest of __assert_time_limit_async and of __run_test:
\* TerminateThread(test_thread, -1), the handles are closed, in_timed = false,
\* and the switch on the result; __test_assert__(false) is fail_test here
WinAfterWait ==
    /\ win.op = "test" /\ win.pc = "woken"
    /\ UNCHANGED <<user, proc, alloc, cmp, diag>>
    /\ LET w == [TerminateThread(win, win.test_thread) EXCEPT !.in_timed = FALSE]
       IN  win' = IF win.test_result = "WAIT_OBJECT_0"
                  THEN [w EXCEPT !.pc = "done", !.passed = "true"]
                  ELSE [w EXCEPT !.pc = "done", !.passed = "false",
                                 !.failures = @ + 1]

\* the worker is at statement op of the function
WinAt(op) ==
    /\ win.op = "test" /\ win.worker = "running"
    /\ win.wip <= Len(win.func)
    /\ win.func[win.wip].op = op

\* __test_assert__(cond) on the worker thread, when cond is false and the
\* assertion returns: the worker goes on with the function
WinWentOn(w) == [w EXCEPT !.wip = @ + 1, !.wwenton = TRUE]

\* an assertion of the function, on the worker thread: on a failure
\* in_timed is read and terminate_timed_test() ends the thread of test_thread
WinWorkerAssert ==
    /\ WinAt("assert")
    /\ UNCHANGED <<user, proc, alloc, cmp, diag>>
    /\ IF win.func[win.wip].ok THEN win' = [win EXCEPT !.wip = @ + 1]
       ELSE LET w == [win EXCEPT !.wfailed = TRUE]
            IN  IF w.in_timed
                THEN LET w1 == TerminateThread(w, w.test_thread)
                     IN  win' = IF w1.worker = "running" THEN WinWentOn(w1) ELSE w1
                ELSE \* fail_test() on the worker thread
                     win' = [w EXCEPT !.failures = @ + 1, !.worker = "jumped"]

\* testfunc_malloc(1) in the function, on the worker thread
WinWorkerMalloc ==
    /\ WinAt("malloc")
    /\ UNCHANGED <<user, proc, alloc, cmp, diag>>
    /\ \E a \in MallocChoices(win.mem), d \in NodeChoices(win.mem) :
          win' = [win EXCEPT !.mem = testfunc_malloc(win.mem, 1, a, d).mem,
                             !.wip = @ + 1]

\* __testfunc_runner__: the function has returned;
\* ReleaseSemaphore(test_semaphore, 1, NULL); return 0
WinWorkerReturn ==
    /\ win.op = "test" /\ win.worker = "running"
    /\ win.wip > Len(win.func)
    /\ UNCHANGED <<user, proc, alloc, cmp, diag>>
    /\ win' = [win EXCEPT !.semaphore = @ + 1, !.worker = "returned"]

WinNext ==
    \/ WinCreateThread
    \/ WinAssignHandle
    \/ WinWaitSignaled
    \/ WinWaitTimeout
    \/ WinAfterWait
    \/ WinWorkerAssert
    \/ WinWorkerMalloc
    \/ WinWorkerReturn

WinSpec == WinInit /\ [][WinNext]_vars

\* the records of list m, head to tail, with what they hold
RecordValues(m) ==
    [k \in 1..Len(TrackedRecords(m)) |->
        [node |-> TrackedRecords(m)[k], ptr |-> m.node[TrackedRecords(m)[k]].ptr,
         bytes |-> m.node[TrackedRecords(m)[k]].bytes]]

\* list m is a chain from head to tail whose back links mirror it
ListWellFormed(m) ==
    LET walk == <<m.head>> \o TrackedRecords(m) \o <<m.tail>>
    IN  /\ \A k \in 1..(Len(walk) - 1) :
              /\ m.node[walk[k]].succ = walk[k + 1]
              /\ m.node[walk[k + 1]].pred = walk[k]
        /\ \A k \in 2..(Len(walk) - 1) : walk[k] \in m.live

\* C22: after the timed call the tracked-allocation list of the main context
\* holds the records it held before the call, and it is well-formed all along.
C22_ListUntouchedByTimedFunction ==
    win.op = "test" =>
        /\ ListWellFormed(win.mem)
        /\ win.pc = "done" => RecordValues(win.mem) = RecordValues(win.mem0)

\* C30: a worker that fails an assertion is terminated there, by its own
\* assigned handle: it does not go on with the function, does not jump to the
\* runner's recovery point and leaves the failure counter alone; the main
\* thread then marks the test failed.
C30_FailedWorkerEndsItself ==
    (win.op = "test" /\ win.wfailed) =>
        /\ win.worker = "terminated"
        /\ win.func[win.wip] = ASSERT_FAIL
        /\ win.test_thread = "worker"
        /\ ~win.wwenton
        /\ win.failures = (IF win.passed = "false" THEN 1 ELSE 0)
        /\ win.pc = "done" => win.passed = "false"

\* ---------------------------------------------------------------------------
\* The walk of add_one over the index vectors
\* ---------------------------------------------------------------------------

\* the digits of k written with the dimensions ns as radices, the last digit
\* the least significant
Digits(k, ns) ==
    [j \in 1..Len(ns) |-> (k \div ProductFrom(ns, j + 1)) % ns[j]]

\* C31: from the all-zero index vector, after k calls of add_one with
\* 0 <= k < product of dims the vector is the mixed-radix representation of k,
\* right-most digit fastest, with every component below its dimension (so
\* every index is visited exactly once); after product-of-dims calls the
\* vector is all-zero again; add_one never writes outside positions
\* 0..argn-1.
C31_AddOneCountsInMixedRadix ==
    cmp.op = "add_one" =>
        LET argn == Len(cmp.ns)
            total == Product(cmp.ns)
        IN  /\ DOMAIN cmp.current = 1..argn
            /\ cmp.writes \subseteq 0..(argn - 1)
            /\ cmp.calls < total =>
                  /\ cmp.current = Digits(cmp.calls, cmp.ns)
                  /\ \A j \in 1..argn : cmp.current[j] < cmp.ns[j]
                  /\ Place(cmp.current, cmp.ns) = cmp.calls
            /\ cmp.calls = total => cmp.current = [j \in 1..argn |-> 0]

\* the walk over a 2 x 2 array has carried once, and come round to zero
C31_Witness ==
    /\ cmp.op = "add_one"
    /\ cmp.ns = <<2, 2>>
    /\ cmp.calls = 4
    /\ cmp.current = <<0, 0>>
    /\ cmp.writes = {0, 1}

\* ---------------------------------------------------------------------------
\* The reads of assert_deep_array_equals
\* ---------------------------------------------------------------------------

\* where the element at index vector w of an array lies, and the pointer
\* cells on the way to it in a pointer-to-pointer array
ElemPtr(isptp, ns, size, w) ==
    IF isptp THEN Ptr(SubSeq(w, 1, Len(w) - 1), w[Len(w)] * size)
    ELSE Ptr(<<>>, Place(w, ns) * size)
CellPtrs(isptp, w) ==
    IF isptp THEN {Ptr(SubSeq(w, 1, k - 1), w[k]) : k \in 1..(Len(w) - 1)} ELSE {}

\* the first place, in C's order, where the two arrays of cmp differ
FirstMismatch == CHOOSE e \in cmp.diff : \A d \in cmp.diff : e <= d

\* C32: in runner mode assert_deep_array_equals fails at the first
\* mismatching index in lexicographic order and reads no element at any later
\* index.
C32_StopsAtFirstMismatch ==
    (cmp.op = "equals" /\ cmp.diff # {}) =>
        /\ ~cmp.pass
        /\ \A w \in IndexVectors(cmp.ns) :
              /\ <<1, ElemPtr(cmp.ptp1, cmp.ns, cmp.size, w)>> \in cmp.reads
                    <=> Place(w, cmp.ns) <= FirstMismatch
              /\ <<2, ElemPtr(cmp.ptp2, cmp.ns, cmp.size, w)>> \in cmp.reads
                    <=> Place(w, cmp.ns) <= FirstMismatch
        /\ \A rd \in cmp.reads :
              \E w \in IndexVectors(cmp.ns) :
                 /\ Place(w, cmp.ns) <= FirstMismatch
                 /\ LET isptp == IF rd[1] = 1 THEN cmp.ptp1 ELSE cmp.ptp2
                    IN  rd[2] \in {ElemPtr(isptp, cmp.ns, cmp.size, w)}
                                    \cup CellPtrs(isptp, w)

\* a 2 x 2 comparison of pointer-to-pointer arrays has failed at the second
\* element, with the second row still unread
C32_Witness ==
    /\ cmp.op = "equals" /\ ~cmp.pass
    /\ cmp.ns = <<2, 2>> /\ cmp.ptp1 /\ cmp.ptp2
    /\ cmp.diff = {1, 3}
    /\ <<2, Ptr(<<0>>, cmp.size)>> \in cmp.reads
    /\ <<2, Ptr(<<1>>, 0)>> \notin cmp.reads

\* ---------------------------------------------------------------------------
\* Further properties of the scoped allocator
\* ---------------------------------------------------------------------------

\* C33 (as claimed): testfunc_freeall never reads a field of a record after
\* that record has been released: the successor link that advances the walk
\* is always taken from a record that is still allocated.
C33_FreeAllReadsOnlyLiveRecords ==
    alloc.op = "freeall" => alloc.freed = {}

\* C34 (as claimed): when testfunc_malloc returns NULL, nothing obtained
\* during the call remains allocated and the list is unchanged; if the data
\* block is obtained but the record node cannot be allocated, the data block
\* is released rather than leaked.
C34_FailedMallocLeavesNothing ==
    (alloc.op = "malloc" /\ alloc.ret = NULL) =>
        /\ alloc.mem.blocks = alloc.pre.blocks
        /\ alloc.mem.live = alloc.pre.live
        /\ alloc.mem.node = alloc.pre.node

\* the two static sentinels of list m are where the initialisers put them:
\* neither released nor unlinked at its outer side
SentinelsKept(m) ==
    /\ m.head = CONST_HEAD /\ m.tail = CONST_TAIL
    /\ {CONST_HEAD, CONST_TAIL} \cap m.live = {}
    /\ m.node[CONST_HEAD].pred = NULL /\ m.node[CONST_HEAD].ptr = NULL
    /\ m.node[CONST_TAIL].succ = NULL /\ m.node[CONST_TAIL].ptr = NULL

\* C35: after any sequence of testfunc_malloc / calloc / realloc / free /
\* freeall calls the list is a well-formed doubly-linked chain from the head
\* sentinel to the tail sentinel (n.pred.succ = n and n.succ.pred = n for every
\* record, tail reachable from head), and the two sentinels are never unlinked
\* or released.
C35_ListAlwaysWellFormed ==
    /\ ListWellFormed(alloc.mem)
    /\ SentinelsKept(alloc.mem)
    /\ \A r \in NodePool :
          (\E k \in 1..Len(TrackedRecords(alloc.mem)) : TrackedRecords(alloc.mem)[k] = r)
             => /\ alloc.mem.node[alloc.mem.node[r].pred].succ = r
                /\ alloc.mem.node[alloc.mem.node[r].succ].pred = r

\* the first of two records has been freed, the second is still in the chain
C35_Witness ==
    /\ alloc.op = "free"
    /\ Len(TrackedRecords(alloc.pre)) = 2
    /\ TrackedRecords(alloc.mem) = <<TrackedRecords(alloc.pre)[2]>>

\* ---------------------------------------------------------------------------
\* How the parent leaves the POSIX hard timed driver, and whom its alarm
\* handler signals
\* ---------------------------------------------------------------------------

\* process p leaves __assert_time_limit_async in this step, by the return or
\* by the jump of a failed check
LeavesTimedCall(p) ==
    /\ proc[p].pc = "t_after"
    /\ proc'[p].pc \notin {"t_after", "zombie", "none"}

\* C36: on every path by which the parent leaves __assert_time_limit_async
\* after a successful fork (check passed and function returns, or check failed
\* and control jumps to the recovery point), the timed flag is false, the
\* recorded child pid is -1, the interval timer is disarmed and the previous
\* SIGALRM handler is restored.
C36_ParentLeavesTimedCallClean ==
    [][\A p \in Pids :
          LeavesTimedCall(p) =>
             /\ ~proc'[p].in_timed
             /\ proc'[p].child = -1
             /\ proc'[p].timer = "off"
             /\ proc'[p].handler = proc[p].prev_handler
             /\ proc'[p].pc \in {"body", "rt_fail"}]_vars

\* the child of a hard timed call was killed at the limit, the check has
\* failed and the parent is at the recovery point
C36_Witness ==
    /\ Main.pc = "rt_fail"
    /\ tests[Main.i + 1] = <<HARD("loop", LIMIT_POS), ASSERT_OK>>
    /\ ~Main.nofork
    /\ ~Main.in_timed /\ Main.child = -1 /\ Main.timer = "off"
    /\ Main.handler = "dfl"
    /\ Live = {MainPid}

\* C37 (as claimed): the SIGALRM handler sends SIGKILL only to the child of
\* the timed test in progress while that child is still unreaped: never to a
\* pid that waitpid has reaped, and never when no timed test is in progress.
C37_HandlerSignalsOnlyUnreapedChild ==
    \A p \in Pids : ~proc[p].stray

(***************************************************************************)
(* The three buffers the failure report is formatted from, and the calls   *)
(* that fill them. A string is the sequence of its characters, without the *)
(* NUL that ends it in memory; a buffer is the sequence of its units, 0    *)
(* for NUL.                                                                *)
(***************************************************************************)
MAX_STR_LEN == 1024

\* the lengths of the strings handed to the calls: empty, short, and around
\* the size of the buffer
StrLens == {0, 1, MAX_STR_LEN - 2, MAX_STR_LEN - 1, MAX_STR_LEN, MAX_STR_LEN + 1}
Strings == {[k \in 1..len |-> 97 + (k % 2)] : len \in StrLens}

\* static char buf[MAX_STR_LEN] = { '\0' }
ZeroBuffer == [k \in 1..MAX_STR_LEN |-> 0]

\* strncpy(dest, src, count) on a dest of exactly count units: the characters
\* of src up to count of them, then NULs up to count; no NUL is written when
\* src has count characters or more
strncpy(dest, src, count) ==
    [k \in 1..Len(dest) |->
        IF k > count THEN dest[k]
        ELSE IF k <= Len(src) THEN src[k] ELSE 0]

\* __set_last_file, __set_last_caller, __set_last_assert
set_last_file(d, filename) ==
    [d EXCEPT !.file = strncpy(d.file, filename, MAX_STR_LEN)]
set_last_caller(d, caller) ==
    [d EXCEPT !.caller = strncpy(d.caller, caller, MAX_STR_LEN)]
set_last_assert(d, assert) ==
    [d EXCEPT !.used = strncpy(d.used, assert, MAX_STR_LEN)]

StrInit ==
    /\ tests = <<>> /\ benchs = <<>> /\ warmup = 0 /\ times = 0
    /\ mainProg = <<>>
    /\ proc = [p \in Pids |-> NoProc]
    /\ alloc = NoAlloc
    /\ cmp = NoCmp
    /\ win = NoWin
    /\ diag = [op |-> "init", file |-> ZeroBuffer, caller |-> ZeroBuffer,
               used |-> ZeroBuffer]

StrSetLastFile ==
    /\ UNCHANGED <<user, proc, alloc, cmp, win>>
    /\ \E s \in Strings : diag' = [set_last_file(diag, s) EXCEPT !.op = "file"]

StrSetLastCaller ==
    /\ UNCHANGED <<user, proc, alloc, cmp, win>>
    /\ \E s \in Strings : diag' = [set_last_caller(diag, s) EXCEPT !.op = "caller"]

StrSetLastAssert ==
    /\ UNCHANGED <<user, proc, alloc, cmp, win>>
    /\ \E s \in Strings : diag' = [set_last_assert(diag, s) EXCEPT !.op = "assert"]

StrNext ==
    \/ StrSetLastFile
    \/ StrSetLastCaller
    \/ StrSetLastAssert

StrSpec == StrInit /\ [][StrNext]_vars

\* buf holds a NUL-terminated string of at most MAX_STR_LEN - 1 characters:
\* a read of the string in it stays inside the buffer
HoldsString(buf) == \E k \in 1..MAX_STR_LEN : buf[k] = 0

\* C38 (as claimed): after __set_last_file, __set_last_caller or
\* __set_last_assert is called with a string of any length, the corresponding
\* buffer holds a NUL-terminated string of at most 1023 characters, so that
\* formatting a failure report never reads past the 1024-unit buffer.
C38_BuffersHoldStrings ==
    /\ diag.op = "file" => HoldsString(diag.file)
    /\ diag.op = "caller" => HoldsString(diag.caller)
    /\ diag.op = "assert" => HoldsString(diag.used)

(***************************************************************************)
(* Verbose printing. Two runs of run_tests over the same tests, with the   *)
(* same answers of the C library and the same processor times, one with    *)
(* verbose printing enabled and one with it disabled, taken step by step   *)
(* together. A run holds what the code reads and writes: the verbose flag, *)
(* Message, the passed flags, the failure counter, the tracked-allocation  *)
(* list, and the number of lines written to stderr.                        *)
(***************************************************************************)
\* assert_equals(a, b), whose message is written by print_obj_hashes
EQUALS_OK == Stmt("assert_equals", TRUE, "", 0)
EQUALS_FAIL == Stmt("assert_equals", FALSE, "", 0)

\* the test procedures of the two runs
VbProcs ==
    { <<ASSERT_OK, EQUALS_OK>>,
      <<EQUALS_FAIL, ASSERT_OK>>,
      <<MALLOC, ASSERT_FAIL>>,
      <<MALLOC, FREE, MALLOC>>,
      <<MALLOC, EQUALS_OK>>,
      <<SOFT("ok", LIMIT_POS), MALLOC>> }

\* use_verbose_print(should_use), called before run_tests
use_verbose_print(r, should_use) == [r EXCEPT !.verbose = should_use]

\* the globals as main is entered, with the static initialisers (verbose
\* printing is off unless compiled with __VERBOSE__)
VbStart(flags) ==
    [verbose |-> FALSE, pc |-> "loop", i |-> 0, ip |-> 0, v |-> NULL,
     passed |-> flags, failures |-> 0, mem |-> InitMem,
     msg |-> [width |-> "NARROW", text |-> <<0, 0>>], out |-> 0]

\* vbprintf(stderr, format, ...): the message is kept, and printed if verbose
vb_printf(r, line) ==
    [vbprintf(r, line) EXCEPT !.out = IF r.verbose THEN @ + 1 ELSE @]

\* print_obj_hashes: if (get_verbose_print_status()) vbprintf(...)
vb_print_obj_hashes(r, line) == IF r.verbose THEN vb_printf(r, line) ELSE r

\* the statement run r is at
VbStmt(code, r) == code[r.i + 1][r.ip]
VbAt(code, r, op) ==
    /\ r.pc = "body"
    /\ r.ip <= Len(code[r.i + 1])
    /\ VbStmt(code, r).op = op

\* __run_test up to the call of the test procedure: the header line (two
\* lines in verbose mode) and setjmp
vb_run_test(r) ==
    [r EXCEPT !.pc = "body", !.ip = 1, !.v = NULL,
              !.out = @ + (IF r.verbose THEN 2 ELSE 1)]

\* __test_assert__(cond): the report and fail_test, which jumps to the else
\* branch of __run_test: "Test failed.", passed = false, the time line
vb_test_assert(r, cond) ==
    IF cond THEN [r EXCEPT !.ip = @ + 1]
    ELSE [r EXCEPT !.out = @ + 3, !.failures = @ + 1,
                   !.passed[r.i + 1] = FALSE, !.pc = "sweep"]

\* __assert_true and __assert_equals
vb_assert(r, stmt) ==
    vb_test_assert(IF stmt.op = "assert" THEN vb_printf(r, <<r.i, r.ip>>)
                   ELSE vb_print_obj_hashes(r, <<r.i, r.ip>>),
                   stmt.ok)

\* __assert_time_limit with a function that makes no assertion and takes
\* time ticks of processor time
vb_assert_time_limit(r, time, time_limit) ==
    vb_test_assert(vb_printf(r, <<r.i, r.ip>>), time_limit_kept(time, time_limit))

\* a testfunc_malloc that keeps its record only when the line about the
\* allocation is printed
vb_malloc_tracksWhenVerbose(r, mem, node) ==
    LET res == testfunc_malloc(r.mem, 1, mem, IF r.verbose THEN node ELSE NULL)
        r1  == [r EXCEPT !.mem = res.mem, !.v = mem, !.ip = @ + 1]
    IN  IF mem # NULL THEN vb_printf(r1, <<r.i, r.ip>>) ELSE r1

\* v = testfunc_malloc(1), with its vbprintf on success
vb_malloc(r, mem, node) ==
    LET res == testfunc_malloc(r.mem, 1, mem, node)
        r1  == [r EXCEPT !.mem = res.mem, !.v = res.ret, !.ip = @ + 1]
    IN  IF res.ret # NULL THEN vb_printf(r1, <<r.i, r.ip>>) ELSE r1

\* testfunc_free(v), with its vbprintf when a record is found
vb_free(r) ==
    LET r1 == [r EXCEPT !.mem = testfunc_free(r.mem, r.v), !.ip = @ + 1]
    IN  IF r.v # NULL /\ FindNode(r.mem, r.mem.head, r.v, MaxNodes + 2) # NULL
        THEN vb_printf(r1, <<r.i, r.ip>>) ELSE r1

\* the test procedure returns: "Test passed.", passed = true, the time line
vb_return(r) ==
    [r EXCEPT !.out = @ + 2, !.passed[r.i + 1] = TRUE, !.pc = "sweep"]

\* testfunc_freeall() with outcome o, its vbprintf of a newline when the list
\* is not empty and those of testfunc_free, then the loop of __run_tests
vb_freeall(r, o) ==
    LET recs == {k \in 1..Len(TrackedRecords(r.mem)) :
                    r.mem.node[TrackedRecords(r.mem)[k]].ptr # NULL}
        r1   == [r EXCEPT !.mem = o.mem, !.i = @ + 1, !.ip = 0, !.v = NULL,
                          !.pc = IF o.lost THEN "lost" ELSE "loop"]
    IN  IF TrackedRecords(r.mem) # <<>>
        THEN [vb_printf(r1, <<r.i, 0>>) EXCEPT
                 !.out = IF r.verbose THEN @ + Cardinality(recs) ELSE @]
        ELSE r1

VbInit ==
    /\ tests = <<>> /\ benchs = <<>> /\ warmup = 0 /\ times = 0
    /\ mainProg = <<>>
    /\ proc = [p \in Pids |-> NoProc]
    /\ alloc = NoAlloc
    /\ cmp = NoCmp
    /\ win = NoWin
    /\ \E code \in SeqsUpTo(VbProcs, MaxTests) :
       \E flags \in [1..Len(code) -> BOOLEAN] :
          diag = [op |-> "pair", code |-> code,
                  on  |-> use_verbose_print(VbStart(flags), TRUE),
                  off |-> use_verbose_print(VbStart(flags), FALSE)]

\* both runs are at a statement op
VbBothAt(op) == VbAt(diag.code, diag.on, op) /\ VbAt(diag.code, diag.off, op)

VbRunTest ==
    /\ diag.op = "pair"
    /\ diag.on.pc = "loop" /\ diag.off.pc = "loop"
    /\ diag.on.i < Len(diag.code) /\ diag.off.i < Len(diag.code)
    /\ UNCHANGED <<user, proc, alloc, cmp, win>>
    /\ diag' = [diag EXCEPT !.on = vb_run_test(@), !.off = vb_run_test(@)]

VbAssert ==
    /\ diag.op = "pair"
    /\ VbBothAt("assert") \/ VbBothAt("assert_equals")
    /\ UNCHANGED <<user, proc, alloc, cmp, win>>
    /\ diag' = [diag EXCEPT !.on = vb_assert(@, VbStmt(diag.code, @)),
                            !.off = vb_assert(@, VbStmt(diag.code, @))]

\* the function takes the same processor time in both runs
VbAssertTimeLimit ==
    /\ diag.op = "pair"
    /\ VbBothAt("soft")
    /\ UNCHANGED <<user, proc, alloc, cmp, win>>
    /\ \E time \in {LIMIT_POS \div UnitsPerTick, LIMIT_POS \div UnitsPerTick + 1} :
          diag' = [diag EXCEPT
                      !.on = vb_assert_time_limit(@, time, LIMIT_POS),
                      !.off = vb_assert_time_limit(@, time, LIMIT_POS)]

\* the C library gives the same answers in both runs
VbMalloc ==
    /\ diag.op = "pair"
    /\ VbBothAt("malloc")
    /\ UNCHANGED <<user, proc, alloc, cmp, win>>
    /\ \E a \in MallocChoices(diag.on.mem) \cap MallocChoices(diag.off.mem),
          d \in NodeChoices(diag.on.mem) \cap NodeChoices(diag.off.mem) :
          diag' = [diag EXCEPT !.on = vb_malloc(@, a, d), !.off = vb_malloc(@, a, d)]

VbFree ==
    /\ diag.op = "pair"
    /\ VbBothAt("free")
    /\ UNCHANGED <<user, proc, alloc, cmp, win>>
    /\ diag' = [diag EXCEPT !.on = vb_free(@), !.off = vb_free(@)]

VbReturn ==
    /\ diag.op = "pair"
    /\ \A r \in {diag.on, diag.off} :
          r.pc = "body" /\ r.ip > Len(diag.code[r.i + 1])
    /\ UNCHANGED <<user, proc, alloc, cmp, win>>
    /\ diag' = [diag EXCEPT !.on = vb_return(@), !.off = vb_return(@)]

\* the reads of released records give the same in both runs
VbFreeAll ==
    /\ diag.op = "pair"
    /\ diag.on.pc = "sweep" /\ diag.off.pc = "sweep"
    /\ UNCHANGED <<user, proc, alloc, cmp, win>>
    /\ \E o1 \in testfunc_freeall(diag.on.mem), o2 \in testfunc_freeall(diag.off.mem) :
          /\ o1.lost = o2.lost /\ o1.freed = o2.freed
          /\ diag' = [diag EXCEPT !.on = vb_freeall(@, o1), !.off = vb_freeall(@, o2)]

VbNext ==
    \/ VbRunTest
    \/ VbAssert
    \/ VbAssertTimeLimit
    \/ VbMalloc
    \/ VbFree
    \/ VbReturn
    \/ VbFreeAll

VbSpec == VbInit /\ [][VbNext]_vars

\* C39: for any sequence of tests, the passed flags, the failure counter and
\* the allocator state after run_tests are identical whether verbose printing
\* is enabled or disabled; use_verbose_print only changes what is printed.
C39_VerboseOnlyChangesOutput ==
    diag.op = "pair" =>
        /\ diag.on.passed = diag.off.passed
        /\ diag.on.failures = diag.off.failures
        /\ diag.on.mem = diag.off.mem
        /\ diag.on.pc = diag.off.pc /\ diag.on.i = diag.off.i
        /\ diag.on.ip = diag.off.ip /\ diag.on.v = diag.off.v

\* run_tests has returned in both runs after a test that failed an
\* assert_equals and a test that left a block to the sweep: the two runs
\* printed different amounts and keep different messages
C39_Witness ==
    /\ diag.op = "pair"
    /\ diag.code = << <<EQUALS_FAIL, ASSERT_OK>>, <<MALLOC, EQUALS_OK>> >>
    /\ diag.on.pc = "loop" /\ diag.on.i = 2
    /\ diag.off.pc = "loop" /\ diag.off.i = 2
    /\ diag.on.passed = <<FALSE, TRUE>>
    /\ diag.on.failures = 1
    /\ diag.on.out > diag.off.out
    /\ diag.on.msg # diag.off.msg

=============================================================================
